----------------------------- MODULE Spec2Model -----------------------------
(***************************************************************************)
(* A model of zb's store-path algebra and derivation codec                 *)
(* (src/zbstore/derivation.go) and of the imports of sources and texts     *)
(* into the store (src/path_eval.go).                                      *)
(*                                                                         *)
(* Byte strings are sequences of one-character strings; a Go string or     *)
(* []byte value is such a sequence.  Byte order (Go's string comparison)   *)
(* is the order of the ASCII codes, given by Code.                         *)
(***************************************************************************)
EXTENDS Integers, Sequences, FiniteSets, TLC

(***************************************************************************)
(* State.                                                                  *)
(***************************************************************************)

VARIABLES
  mk,          \* store path computation: the arguments being put together
  callA,       \* the first makeStorePath call and its result
  callB,       \* the second makeStorePath call and its result
  pathCall,    \* the calls of Path, IsFixed and IsFloating on an output, and their results
  placeholders,\* the calls of the two placeholder functions and their results
  doc,         \* the text handed to ParseDerivation, by its parts, and dir and name
  pc,          \* how far the derivation of doc has been processed
  parsed,      \* the result of ParseDerivation on the text of doc
  marshalled,  \* the result of MarshalText on the parsed derivation
  reparsed,    \* the result of ParseDerivation on the marshalled text
  remarshalled,\* the result of MarshalText on the reparsed derivation
  exported,    \* the result of Export on the parsed derivation
  resolve,     \* an argument of path with its caller, and what it resolves to
  files,       \* the source files: their metadata and data, by path
  disk,        \* the store objects on disk
  cache,       \* the persistent cache of source imports: its mappings
  eval,        \* the evaluator: how far the call of path or toFile has come
  imported,    \* by name, the last import that returned a store path
  calls,       \* the calls of path in progress, by goroutine, statement by statement
  conn,        \* the cache connection: its relation "curr" and its transaction
  tables,      \* the tables of the cache database, as committed
  compared     \* three paths, and what collatePath and the iteration make of them

pathVars == <<mk, callA, callB, pathCall, placeholders>>
codecVars == <<doc, pc, parsed, marshalled, reparsed, remarshalled, exported>>
importVars == <<files, disk, cache, eval, imported>>
pipelineVars == <<calls, conn, tables>>
evalVars == <<resolve, compared, importVars, pipelineVars>>

\* F applied to the value of v.
Bind(v, F(_)) == CHOOSE r \in {F(x) : x \in {v}} : TRUE

(***************************************************************************)
(* Bytes.                                                                  *)
(***************************************************************************)

\* The printable ASCII characters, in ascending order of their code: 32..95
\* in AsciiLow and 97..126 in AsciiHigh (code 96 is not used by the model).
AsciiLow ==
  << " ", "!", "\"", "#", "$", "%", "&", "'", "(", ")", "*", "+", ",", "-", ".", "/",
     "0", "1", "2", "3", "4", "5", "6", "7", "8", "9", ":", ";", "<", "=", ">", "?",
     "@", "A", "B", "C", "D", "E", "F", "G", "H", "I", "J", "K", "L", "M", "N", "O",
     "P", "Q", "R", "S", "T", "U", "V", "W", "X", "Y", "Z", "[", "\\", "]", "^", "_" >>

AsciiHigh ==
  << "a", "b", "c", "d", "e", "f", "g", "h", "i", "j", "k", "l", "m", "n", "o",
     "p", "q", "r", "s", "t", "u", "v", "w", "x", "y", "z", "{", "|", "}", "~" >>

Char ==
  {AsciiLow[i] : i \in 1..Len(AsciiLow)} \cup {AsciiHigh[i] : i \in 1..Len(AsciiHigh)}
    \cup {"\t", "\n", "\r"}

\* The byte value of every character of the model.
CodeTable ==
  [c \in Char |->
     IF c = "\t" THEN 9
     ELSE IF c = "\n" THEN 10
     ELSE IF c = "\r" THEN 13
     ELSE IF \E i \in 1..Len(AsciiLow) : AsciiLow[i] = c
       THEN 31 + (CHOOSE i \in 1..Len(AsciiLow) : AsciiLow[i] = c)
       ELSE 96 + (CHOOSE i \in 1..Len(AsciiHigh) : AsciiHigh[i] = c)]

Code(c) == CodeTable[c]

\* String comparison as in Go: bytewise lexicographic, a proper prefix first.
StrLess(a, b) ==
  LET m == IF Len(a) < Len(b) THEN Len(a) ELSE Len(b)
      diffs == {i \in 1..m : a[i] # b[i]}
  IN IF diffs = {} THEN Len(a) < Len(b)
     ELSE LET d == CHOOSE i \in diffs : \A j \in diffs : i <= j
          IN Code(a[d]) < Code(b[d])

\* strings.HasPrefix / bytes.CutPrefix / strings.TrimSuffix.
HasPrefix(s, p) == Len(s) >= Len(p) /\ SubSeq(s, 1, Len(p)) = p
HasSuffix(s, p) == Len(s) >= Len(p) /\ SubSeq(s, Len(s) - Len(p) + 1, Len(s)) = p
DropPrefix(s, n) == SubSeq(s, n + 1, Len(s))
TrimSuffix(s, p) == IF HasSuffix(s, p) THEN SubSeq(s, 1, Len(s) - Len(p)) ELSE s

\* The elements of a sequence, and the concatenation of a sequence of strings.
Range(q) == {q[i] : i \in 1..Len(q)}

RECURSIVE ConcatRange(_, _, _)
ConcatRange(parts, lo, hi) ==
  IF lo > hi THEN << >>
  ELSE IF lo = hi THEN parts[lo]
  ELSE LET mid == (lo + hi) \div 2
       IN ConcatRange(parts, lo, mid) \o ConcatRange(parts, mid + 1, hi)

Concat(parts) == ConcatRange(parts, 1, Len(parts))

\* Position of the last occurrence of character c in s (0 when absent).
LastIndex(s, c) ==
  LET at == {i \in 1..Len(s) : s[i] = c}
  IN IF at = {} THEN 0 ELSE CHOOSE i \in at : \A j \in at : j <= i


(***************************************************************************)
(* Hashes (zombiezen.com/go/nix) and their encodings.                      *)
(***************************************************************************)

\* nix.HashType values and HashType.Size, in bytes.
HashTypes == {"md5", "sha1", "sha256", "sha512"}
HashSize(t) ==
  CASE t = "md5" -> 16 [] t = "sha1" -> 20 [] t = "sha256" -> 32 [] t = "sha512" -> 64

\* HashType.String.
HashTypeString(t) ==
  CASE t = "md5" -> <<"m", "d", "5">>
    [] t = "sha1" -> <<"s", "h", "a", "1">>
    [] t = "sha256" -> <<"s", "h", "a", "2", "5", "6">>
    [] t = "sha512" -> <<"s", "h", "a", "5", "1", "2">>

\* nix.ParseHashType: the type named by s, or an error.
ParseHashType(s) ==
  IF \E t \in HashTypes : HashTypeString(t) = s
    THEN [err |-> "", typ |-> CHOOSE t \in HashTypes : HashTypeString(t) = s]
    ELSE [err |-> "unknown hash type", typ |-> "none"]

HexDigits ==
  <<"0", "1", "2", "3", "4", "5", "6", "7", "8", "9", "a", "b", "c", "d", "e", "f">>

\* Value of a hexadecimal digit of either case, or -1.
HexValue(c) ==
  IF \E i \in 1..16 : HexDigits[i] = c THEN (CHOOSE i \in 1..16 : HexDigits[i] = c) - 1
  ELSE CASE c = "A" -> 10 [] c = "B" -> 11 [] c = "C" -> 12 [] c = "D" -> 13
         [] c = "E" -> 14 [] c = "F" -> 15 [] OTHER -> -1

\* encoding/hex.EncodeToString: two lower-case digits per byte.
HexEncode(bytes) ==
  [k \in 1..(2 * Len(bytes)) |->
     IF k % 2 = 1 THEN HexDigits[(bytes[(k + 1) \div 2] \div 16) + 1]
     ELSE HexDigits[(bytes[k \div 2] % 16) + 1]]

\* encoding/hex.DecodeString: fails on an odd length or a character that is no digit.
HexDecode(s) ==
  IF Len(s) % 2 # 0 \/ \E i \in 1..Len(s) : HexValue(s[i]) < 0
    THEN [err |-> "invalid hex", bytes |-> << >>]
    ELSE [err |-> "",
          bytes |-> [k \in 1..(Len(s) \div 2) |->
                       16 * HexValue(s[2 * k - 1]) + HexValue(s[2 * k])]]

\* Stand-in for the SHA-256 compression of a byte string: a checksum of all
\* the bytes, each weighted by its position (the digest itself is not
\* modelled).
HashModulus == 8388593
Weight(i) == ((i * 7919) + (i * i * 31) + 1) % HashModulus

RECURSIVE ChecksumRange(_, _, _)
ChecksumRange(s, lo, hi) ==
  IF lo > hi THEN 0
  ELSE IF lo = hi THEN ((Code(s[lo]) + 1) * Weight(lo)) % HashModulus
  ELSE LET mid == (lo + hi) \div 2
       IN (ChecksumRange(s, lo, mid) + ChecksumRange(s, mid + 1, hi)) % HashModulus

Checksum(s) == (ChecksumRange(s, 1, Len(s)) + Len(s) + 7) % HashModulus

\* The 32 digest bytes of the stand-in.
SHA256Bytes(s) ==
  LET acc == Checksum(s)
  IN [i \in 1..HashSize("sha256") |-> ((acc \div i) + 7 * i) % 256]

\* nix.Hash: a type and its digest bytes.  nix.NewHash, Hasher.SumHash.
NewHash(t, bytes) == [type |-> t, bits |-> bytes]
SumHash(s) == NewHash("sha256", SHA256Bytes(s))

\* Hash.RawBase16 and Hash.Base16 (the type, a colon, the digits).
RawBase16(h) == HexEncode(h.bits)
Base16(h) == HashTypeString(h.type) \o <<":">> \o RawBase16(h)

\* Exclusive or of two bytes.
RECURSIVE Xor(_, _)
Xor(a, b) ==
  IF a = 0 THEN b
  ELSE IF b = 0 THEN a
  ELSE ((a + b) % 2) + 2 * Xor(a \div 2, b \div 2)

\* nix.CompressHash: fold src into n bytes, dst[i mod n] ^= src[i].
RECURSIVE XorFold(_, _, _)
XorFold(src, k, n) ==
  IF k > Len(src) THEN 0 ELSE Xor(src[k], XorFold(src, k + n, n))

CompressHash(n, src) == [k \in 1..n |-> XorFold(src, k, n)]

\* nixbase32: the alphabet and EncodeToString (five bits per character,
\* the most significant group first).
Base32Alphabet ==
  <<"0", "1", "2", "3", "4", "5", "6", "7", "8", "9", "a", "b", "c", "d", "f", "g",
    "h", "i", "j", "k", "l", "m", "n", "p", "q", "r", "s", "v", "w", "x", "y", "z">>

Pow2(j) == CASE j = 0 -> 1 [] j = 1 -> 2 [] j = 2 -> 4 [] j = 3 -> 8
             [] j = 4 -> 16 [] j = 5 -> 32 [] j = 6 -> 64 [] j = 7 -> 128

Base32EncodedLen(n) == IF n = 0 THEN 0 ELSE ((n * 8 - 1) \div 5) + 1

Base32Char(src, n) ==
  LET b == n * 5
      i == b \div 8
      j == b % 8
      lo == src[i + 1]
      hi == IF i + 1 < Len(src) THEN src[i + 2] ELSE 0
  IN Base32Alphabet[(((lo + 256 * hi) \div Pow2(j)) % 32) + 1]

Base32Encode(src) ==
  LET len == Base32EncodedLen(Len(src))
  IN [k \in 1..len |-> Base32Char(src, len - k)]

\* Hash.RawBase32.
RawBase32(h) == Base32Encode(h.bits)

(***************************************************************************)
(* Sorted sets (internal/sortedset) and sorting.                           *)
(***************************************************************************)

\* sortedset.Set[T]: a strictly ascending sequence.  Set.Add inserts x at
\* its place unless it is present already.
RECURSIVE SetAddAt(_, _, _)
SetAddAt(set, x, i) ==
  IF i > Len(set) THEN Append(set, x)
  ELSE IF set[i] = x THEN set
  ELSE IF StrLess(x, set[i])
    THEN SubSeq(set, 1, i - 1) \o <<x>> \o SubSeq(set, i, Len(set))
  ELSE SetAddAt(set, x, i + 1)

SetAdd(set, x) == SetAddAt(set, x, 1)

\* Set.AddSet, and adding the elements of a sequence one after the other.
RECURSIVE SetAddAll(_, _)
SetAddAll(set, xs) ==
  IF xs = << >> THEN set ELSE SetAddAll(SetAdd(set, Head(xs)), Tail(xs))

\* slices.Sort on strings: ascending, duplicates kept.
RECURSIVE InsertSorted(_, _, _)
InsertSorted(q, x, i) ==
  IF i > Len(q) THEN Append(q, x)
  ELSE IF StrLess(x, q[i])
    THEN SubSeq(q, 1, i - 1) \o <<x>> \o SubSeq(q, i, Len(q))
  ELSE InsertSorted(q, x, i + 1)

RECURSIVE SortFrom(_, _)
SortFrom(done, rest) ==
  IF rest = << >> THEN done
  ELSE SortFrom(InsertSorted(done, Head(rest), 1), Tail(rest))

SlicesSort(keys) == SortFrom(<< >>, keys)

\* The keys of a map in the order the map iterates in, not sorted.
unsortedKeys(keys) == keys

\* sortedKeys(m): the keys of the map, collected in the order the map
\* happens to iterate in (keys, any enumeration of them), then sorted.
sortedKeys(keys) == SlicesSort(keys)

\* The enumerations of a finite set: the orders a Go map may iterate in.
Enumerations(S) ==
  {q \in [1..Cardinality(S) -> S] : \A i, j \in 1..Cardinality(S) : q[i] = q[j] => i = j}

(***************************************************************************)
(* Store paths (zbstore.Path, zbstore.Directory).                          *)
(***************************************************************************)

\* Length of the digest that starts a store object name.
objectNameDigestLength == 32

\* The characters a store object name may hold.
NameChars ==
  {c \in Char : \/ Code(c) \in 48..57 \/ Code(c) \in 65..90 \/ Code(c) \in 97..122
               \/ c \in {"+", "-", ".", "_", "?", "="}}

\* ParsePath: an absolute path <dir>/<digest>-<name>.  (Paths are given in
\* their cleaned form; cleaning is not modelled.)
ParsePath(s) ==
  LET k == LastIndex(s, "/")
      base == SubSeq(s, k + 1, Len(s))
      n == objectNameDigestLength
  IN IF s = << >> \/ s[1] # "/" THEN [err |-> "not absolute", path |-> << >>]
     ELSE IF k = 1 \/ k = Len(s) THEN [err |-> "not a store path", path |-> << >>]
     ELSE IF Len(base) < n + 2 THEN [err |-> "name too short", path |-> << >>]
     ELSE IF \E i \in 1..n : base[i] \notin Range(Base32Alphabet)
       THEN [err |-> "invalid digest", path |-> << >>]
     ELSE IF base[n + 1] # "-" THEN [err |-> "missing dash", path |-> << >>]
     ELSE IF base[n + 2] = "." \/ \E i \in (n + 2)..Len(base) : base[i] \notin NameChars
       THEN [err |-> "invalid name", path |-> << >>]
     ELSE [err |-> "", path |-> s]

\* Path.Dir, Path.Base, Path.Digest, Path.Name.
PathDir(p) == SubSeq(p, 1, LastIndex(p, "/") - 1)
PathBase(p) == SubSeq(p, LastIndex(p, "/") + 1, Len(p))
PathDigest(p) == SubSeq(PathBase(p), 1, objectNameDigestLength)
PathName(p) == DropPrefix(PathBase(p), objectNameDigestLength + 1)

\* Directory.Object: the path of the object called name in dir.
Object(dir, name) ==
  IF name = << >> \/ "/" \in Range(name) THEN [err |-> "invalid object name", path |-> << >>]
  ELSE ParsePath(dir \o <<"/">> \o name)

(***************************************************************************)
(* Content addresses and references.                                       *)
(***************************************************************************)

\* contentAddressMethod.
textIngestionMethod == 1
flatFileIngestionMethod == 2
recursiveFileIngestionMethod == 3

\* nix.ContentAddress: TextContentAddress, FlatFileContentAddress,
\* RecursiveFileContentAddress and the zero value.
TextContentAddress(h) == [method |-> textIngestionMethod, hash |-> h]
FlatFileContentAddress(h) == [method |-> flatFileIngestionMethod, hash |-> h]
RecursiveFileContentAddress(h) == [method |-> recursiveFileIngestionMethod, hash |-> h]
ZeroHash == [type |-> "none", bits |-> << >>]
ZeroContentAddress == [method |-> 0, hash |-> ZeroHash]

methodOfContentAddress(ca) ==
  IF ca.method = textIngestionMethod THEN textIngestionMethod
  ELSE IF ca.method = recursiveFileIngestionMethod THEN recursiveFileIngestionMethod
  ELSE flatFileIngestionMethod

\* contentAddressMethod.prefix.
prefix(m) ==
  CASE m = textIngestionMethod -> <<"t", "e", "x", "t", ":">>
    [] m = flatFileIngestionMethod -> << >>
    [] m = recursiveFileIngestionMethod -> <<"r", ":">>

\* References: the sorted set Others and the flag Self.
NoReferences == [Others |-> << >>, Self |-> FALSE]

\* The string makeStorePath hashes.
RECURSIVE RefsPart(_, _)
RefsPart(others, i) ==
  IF i > Len(others) THEN << >>
  ELSE <<":">> \o others[i] \o RefsPart(others, i + 1)

\* The fingerprint with the self token placed before the other references.
fingerprintSelfFirst(dir, typ, hash, name, refs) ==
  typ \o (IF refs.Self THEN <<":", "s", "e", "l", "f">> ELSE << >>)
      \o RefsPart(refs.Others, 1)
      \o <<":">> \o Base16(hash)
      \o <<":">> \o dir
      \o <<":">> \o name

fingerprint(dir, typ, hash, name, refs) ==
  typ \o RefsPart(refs.Others, 1)
      \o (IF refs.Self THEN <<":", "s", "e", "l", "f">> ELSE << >>)
      \o <<":">> \o Base16(hash)
      \o <<":">> \o dir
      \o <<":">> \o name

\* A makeStorePath that writes the references in the order they were added
\* (the order of the caller's Add calls) and not in the order of the set.
makeStorePathInsertionOrder(dir, typ, hash, name, refs) ==
  LET asAdded == [refs EXCEPT !.Others = mk.added]
      fingerprintHash == SHA256Bytes(fingerprint(dir, typ, hash, name, asAdded))
      compressed == CompressHash(20, fingerprintHash)
      digest == Base32Encode(compressed)
  IN Object(dir, digest \o <<"-">> \o name)

\* makeStorePath: the fingerprint hashed, compressed to 20 bytes, encoded
\* in base 32 and joined to the name.
makeStorePath(dir, typ, hash, name, refs) ==
  LET fingerprintHash == SHA256Bytes(fingerprint(dir, typ, hash, name, refs))
      compressed == CompressHash(20, fingerprintHash)
      digest == Base32Encode(compressed)
  IN Object(dir, digest \o <<"-">> \o name)

\* FixedCAOutputPath: the store path of an object with a content address.
FixedCAOutputPath(dir, name, ca, refs) ==
  LET h == ca.hash IN
  IF ca.method = textIngestionMethod THEN
    IF h.type # "sha256" THEN [err |-> "text must be sha256", path |-> << >>]
    ELSE IF refs.Self THEN [err |-> "self-reference in text", path |-> << >>]
    ELSE makeStorePath(dir, <<"t", "e", "x", "t">>, h, name, refs)
  ELSE IF ca.method = recursiveFileIngestionMethod /\ h.type = "sha256" THEN
    makeStorePath(dir, <<"s", "o", "u", "r", "c", "e">>, h, name, refs)
  ELSE IF refs.Others # << >> \/ refs.Self
    THEN [err |-> "references not allowed", path |-> << >>]
  ELSE
    makeStorePath(dir, <<"o", "u", "t", "p", "u", "t", ":", "o", "u", "t">>,
      SumHash(<<"f", "i", "x", "e", "d", ":", "o", "u", "t", ":">>
                \o prefix(methodOfContentAddress(ca)) \o Base16(h) \o <<":">>),
      name, NoReferences)

(***************************************************************************)
(* Derivation outputs.                                                     *)
(***************************************************************************)

\* derivationOutputType.
fixedCAOutputType == 1
floatingCAOutputType == 2

\* DefaultDerivationOutputName, DerivationExt.
DefaultDerivationOutputName == <<"o", "u", "t">>
DerivationExt == <<".", "d", "r", "v">>

\* A *DerivationOutput: nil, or a struct with its four fields.
NilOutput ==
  [nil |-> TRUE, typ |-> 0, ca |-> ZeroContentAddress, method |-> 0, hashAlgo |-> "none"]

FixedCAOutput(ca) ==
  [nil |-> FALSE, typ |-> fixedCAOutputType, ca |-> ca, method |-> 0, hashAlgo |-> "none"]

FlatFileFloatingCAOutput(hashAlgo) ==
  [nil |-> FALSE, typ |-> floatingCAOutputType, ca |-> ZeroContentAddress,
   method |-> flatFileIngestionMethod, hashAlgo |-> hashAlgo]

RecursiveFileFloatingCAOutput(hashAlgo) ==
  [nil |-> FALSE, typ |-> floatingCAOutputType, ca |-> ZeroContentAddress,
   method |-> recursiveFileIngestionMethod, hashAlgo |-> hashAlgo]

IsFixed(out) == IF out.nil THEN FALSE ELSE out.typ = fixedCAOutputType

IsFloating(out) == IF out.nil THEN FALSE ELSE out.typ = fixedCAOutputType

\* A Path that appends the output name for every output, "out" included.
DerivationOutputPathSuffixed(out, store, drvName, outputName) ==
  IF out.nil THEN [path |-> << >>, ok |-> FALSE]
  ELSE IF out.typ = fixedCAOutputType THEN
    LET name == drvName \o <<"-">> \o outputName
        p == FixedCAOutputPath(store, name, out.ca, NoReferences)
    IN [path |-> p.path, ok |-> p.err = ""]
  ELSE [path |-> << >>, ok |-> FALSE]

\* DerivationOutput.Path.
DerivationOutputPath(out, store, drvName, outputName) ==
  IF out.nil THEN [path |-> << >>, ok |-> FALSE]
  ELSE IF out.typ = fixedCAOutputType THEN
    LET name == IF outputName # DefaultDerivationOutputName
                  THEN drvName \o <<"-">> \o outputName ELSE drvName
        p == FixedCAOutputPath(store, name, out.ca, NoReferences)
    IN [path |-> p.path, ok |-> p.err = ""]
  ELSE [path |-> << >>, ok |-> FALSE]

\* HashPlaceholder: the string that stands for the path of an output.
HashPlaceholder(outputName) ==
  <<"/">> \o RawBase32(SumHash(<<"n", "i", "x", "-", "o", "u", "t", "p", "u", "t", ":">>
                                  \o outputName))

\* An UnknownCAOutputPlaceholder that keeps the extension of the derivation name.
UnknownCAOutputPlaceholderWithExt(drvPath, outputName) ==
  <<"/">> \o RawBase32(SumHash(
    <<"n", "i", "x", "-", "u", "p", "s", "t", "r", "e", "a", "m", "-",
      "o", "u", "t", "p", "u", "t", ":">>
      \o PathDigest(drvPath) \o <<":">> \o PathName(drvPath)
      \o (IF outputName # DefaultDerivationOutputName
            THEN <<"-">> \o outputName ELSE << >>)))

\* UnknownCAOutputPlaceholder: the string that stands for an output, not
\* yet known, of a derivation.
UnknownCAOutputPlaceholder(drvPath, outputName) ==
  <<"/">> \o RawBase32(SumHash(
    <<"n", "i", "x", "-", "u", "p", "s", "t", "r", "e", "a", "m", "-",
      "o", "u", "t", "p", "u", "t", ":">>
      \o PathDigest(drvPath) \o <<":">> \o TrimSuffix(PathName(drvPath), DerivationExt)
      \o (IF outputName # DefaultDerivationOutputName
            THEN <<"-">> \o outputName ELSE << >>)))

(***************************************************************************)
(* The ATerm text format (internal/aterm): strings and the scanner.        *)
(***************************************************************************)

Quote == "\""
Backslash == "\\"

\* The text of one character inside a quoted string.
EscapeChar(c) ==
  IF c = Quote THEN <<Backslash, Quote>>
  ELSE IF c = Backslash THEN <<Backslash, Backslash>>
  ELSE IF c = "\n" THEN <<Backslash, "n">>
  ELSE IF c = "\r" THEN <<Backslash, "r">>
  ELSE IF c = "\t" THEN <<Backslash, "t">>
  ELSE <<c>>

NeedsEscape(c) == c \in {Quote, Backslash, "\n", "\r", "\t"}

\* aterm.AppendString: s between double quotes, its special characters escaped.
AppendString(dst, s) ==
  dst \o <<Quote>>
      \o (IF \E i \in 1..Len(s) : NeedsEscape(s[i])
            THEN Concat([i \in 1..Len(s) |-> EscapeChar(s[i])])
            ELSE s)
      \o <<Quote>>

\* Token kinds.
LParen == "("
RParen == ")"
LBracket == "["
RBracket == "]"
String == "string"

\* Whether the byte at j follows a backslash that is itself not escaped
\* (lo is the first byte of the string's contents).
RECURSIVE Escaped(_, _, _)
Escaped(data, j, lo) ==
  j > lo /\ data[j - 1] = Backslash /\ ~Escaped(data, j - 1, lo)

\* The first unescaped quote at lo..hi of a string whose contents start at
\* start, or 0.
RECURSIVE FirstClose(_, _, _, _)
FirstClose(data, lo, hi, start) ==
  IF lo > hi THEN 0
  ELSE IF lo = hi
    THEN IF data[lo] = Quote /\ ~Escaped(data, lo, start) THEN lo ELSE 0
  ELSE LET mid == (lo + hi) \div 2
           left == FirstClose(data, lo, mid, start)
       IN IF left # 0 THEN left ELSE FirstClose(data, mid + 1, hi, start)

\* The character an escape sequence stands for.
UnescapeChar(c) ==
  IF c = "n" THEN "\n" ELSE IF c = "r" THEN "\r" ELSE IF c = "t" THEN "\t" ELSE c

\* The value of the string whose contents are data[lo..hi].
Unescape(data, lo, hi) ==
  IF \A i \in lo..hi : data[i] # Backslash THEN SubSeq(data, lo, hi)
  ELSE Concat([k \in 1..(hi - lo + 1) |->
                 LET i == lo + k - 1
                 IN IF Escaped(data, i, lo) THEN <<UnescapeChar(data[i])>>
                    ELSE IF data[i] = Backslash THEN << >>
                    ELSE <<data[i]>>])

\* aterm.NewScanner: the scanner reads data one byte at a time; pos is the
\* next unread byte, sep whether the last token ended a value (so that a
\* comma or a closing token must follow).
NewScanner == [pos |-> 1, sep |-> FALSE]

ScanError(msg, s) == [err |-> msg, kind |-> "", value |-> << >>, s |-> s]

\* The token that starts at p (a value or, where allowed, a closing token).
ScanValue(data, p, closeOk) ==
  IF p > Len(data) THEN ScanError("unexpected EOF", [pos |-> p, sep |-> FALSE])
  ELSE LET c == data[p] IN
    IF c = "(" \/ c = "["
      THEN [err |-> "", kind |-> c, value |-> << >>, s |-> [pos |-> p + 1, sep |-> FALSE]]
    ELSE IF (c = ")" \/ c = "]") /\ closeOk
      THEN [err |-> "", kind |-> c, value |-> << >>, s |-> [pos |-> p + 1, sep |-> TRUE]]
    ELSE IF c = Quote
      THEN Bind(FirstClose(data, p + 1, Len(data), p + 1), LAMBDA close :
             IF close = 0
               THEN ScanError("unterminated string", [pos |-> Len(data) + 1, sep |-> FALSE])
               ELSE [err |-> "", kind |-> String,
                     value |-> Unescape(data, p + 1, close - 1),
                     s |-> [pos |-> close + 1, sep |-> TRUE]])
    ELSE ScanError("unexpected character", [pos |-> p + 1, sep |-> FALSE])

\* Scanner.ReadToken: the next token and the scanner after it.  After a
\* value, a comma and a value or else a closing token must follow.
ReadToken(data, s) ==
  IF s.pos > Len(data) THEN ScanError("EOF", s)
  ELSE IF ~s.sep THEN ScanValue(data, s.pos, TRUE)
  ELSE IF data[s.pos] = "," THEN ScanValue(data, s.pos + 1, FALSE)
  ELSE IF data[s.pos] = ")" \/ data[s.pos] = "]" THEN ScanValue(data, s.pos, TRUE)
  ELSE ScanError("expected comma", [pos |-> s.pos + 1, sep |-> s.sep])

(***************************************************************************)
(* Derivations: marshalling.                                               *)
(***************************************************************************)

\* A Go map is a function on its set of keys.
EmptyMap == [k \in {} |-> << >>]
MapPut(m, k, v) == [x \in (DOMAIN m) \cup {k} |-> IF x = k THEN v ELSE m[x]]

\* The entries of a list, a comma before each but the first.
JoinComma(parts) ==
  Concat([i \in 1..Len(parts) |-> IF i > 1 THEN <<",">> \o parts[i] ELSE parts[i]])

\* The first error of a sequence of results, "" when there is none.
FirstError(results) ==
  IF \A i \in 1..Len(results) : results[i].err = "" THEN ""
  ELSE results[CHOOSE i \in 1..Len(results) :
                 /\ results[i].err # ""
                 /\ \A j \in 1..(i - 1) : results[j].err = ""].err

\* DerivationOutput.marshalText: the tuple of one output.
DerivationOutput_marshalText(out, storeDir, drvName, outName, maskOutputs) ==
  LET dst == <<"(">> \o AppendString(<< >>, outName) IN
  IF out.nil THEN [err |-> "", text |-> dst \o <<",", Quote, Quote, ",", Quote, Quote, ",", Quote, Quote, ")">>]
  ELSE IF out.typ = fixedCAOutputType THEN
    Bind(DerivationOutputPath(out, storeDir, drvName, outName), LAMBDA p :
      IF ~maskOutputs /\ ~p.ok THEN [err |-> "invalid path", text |-> dst \o <<",">>]
      ELSE [err |-> "",
            text |-> dst
              \o (IF maskOutputs THEN <<",", Quote, Quote>>
                  ELSE <<",">> \o AppendString(<< >>, p.path))
              \o <<",">>
              \o AppendString(<< >>,
                   prefix(methodOfContentAddress(out.ca))
                     \o HashTypeString(out.ca.hash.type))
              \o <<",">>
              \o AppendString(<< >>, RawBase16(out.ca.hash))
              \o <<")">>])
  ELSE IF out.typ = floatingCAOutputType THEN
    [err |-> "",
     text |-> dst \o <<",", Quote, Quote, ",">>
               \o AppendString(<< >>, prefix(out.method) \o HashTypeString(out.hashAlgo))
               \o <<",", Quote, Quote>>
               \o <<")">>]
  ELSE [err |-> "invalid type", text |-> dst]

\* Derivation.marshalText.  it gives the order in which each of the three
\* maps happens to iterate: it.outputs, it.inputDerivations and it.env
\* enumerate the keys of Outputs, InputDerivations and Env.
marshalText(drv, maskOutputs, it) ==
  IF drv.Name = << >> THEN [err |-> "missing name", data |-> << >>]
  ELSE IF drv.Dir = << >> THEN [err |-> "missing store directory", data |-> << >>]
  ELSE
    LET outNames == sortedKeys(it.outputs)
        outs == [i \in 1..Len(outNames) |->
                   DerivationOutput_marshalText(drv.Outputs[outNames[i]], drv.Dir,
                                                drv.Name, outNames[i], maskOutputs)]
        drvPaths == sortedKeys(it.inputDerivations)
        inputs == [i \in 1..Len(drvPaths) |->
                     LET drvPath == drvPaths[i]
                         outputs == drv.InputDerivations[drvPath]
                     IN [err |-> IF PathDir(drvPath) # drv.Dir
                                   THEN "unexpected store directory" ELSE "",
                         text |-> <<"(">> \o AppendString(<< >>, drvPath) \o <<",", "[">>
                                    \o JoinComma([j \in 1..Len(outputs) |->
                                                    AppendString(<< >>, outputs[j])])
                                    \o <<"]", ")">>]]
        srcs == [i \in 1..Len(drv.InputSources) |->
                   LET src == drv.InputSources[i]
                   IN [err |-> IF PathDir(src) # drv.Dir
                                 THEN "unexpected store directory" ELSE "",
                       text |-> AppendString(<< >>, src)]]
        args == [i \in 1..Len(drv.Args) |-> AppendString(<< >>, drv.Args[i])]
        envKeys == sortedKeys(it.env)
        env == [i \in 1..Len(envKeys) |->
                  <<"(">> \o AppendString(<< >>, envKeys[i]) \o <<",">>
                          \o AppendString(<< >>, drv.Env[envKeys[i]]) \o <<")">>]
        err == FirstError(outs \o inputs \o srcs)
    IN IF err # "" THEN [err |-> err, data |-> << >>]
       ELSE [err |-> "",
             data |-> <<"D", "e", "r", "i", "v", "e", "(", "[">>
                        \o JoinComma([i \in 1..Len(outs) |-> outs[i].text])
                        \o <<"]", ",", "[">>
                        \o JoinComma([i \in 1..Len(inputs) |-> inputs[i].text])
                        \o <<"]", ",", "[">>
                        \o JoinComma([i \in 1..Len(srcs) |-> srcs[i].text])
                        \o <<"]", ",">>
                        \o AppendString(<< >>, drv.System)
                        \o <<",">>
                        \o AppendString(<< >>, drv.Builder)
                        \o <<",", "[">>
                        \o JoinComma(args)
                        \o <<"]", ",", "[">>
                        \o JoinComma(env)
                        \o <<"]", ")">>]

\* Derivation.MarshalText.
MarshalText(drv, it) == marshalText(drv, FALSE, it)

\* References that leave out the input derivations.
ReferencesOfSourcesOnly(drv, it) ==
  [Others |-> SetAddAll(<< >>, drv.InputSources), Self |-> FALSE]

\* Derivation.References: the input sources and, in the order the map
\* iterates, the input derivations, added to a sorted set.
References(drv, it) ==
  [Others |-> SetAddAll(SetAddAll(<< >>, drv.InputSources), it.inputDerivations),
   Self |-> FALSE]

\* Derivation.Export (for nix.SHA256): the store path of the derivation
\* and its marshalled text.
Export(drv, it) ==
  IF drv.Name = << >> THEN [path |-> << >>, data |-> << >>, err |-> "missing name"]
  ELSE IF drv.Dir = << >> THEN [path |-> << >>, data |-> << >>, err |-> "missing store directory"]
  ELSE
    Bind(marshalText(drv, FALSE, it), LAMBDA m :
      IF m.err # "" THEN [path |-> << >>, data |-> << >>, err |-> m.err]
      ELSE
        Bind(FixedCAOutputPath(drv.Dir, drv.Name \o DerivationExt,
                               TextContentAddress(SumHash(m.data)), References(drv, it)),
             LAMBDA p :
               IF p.err # "" THEN [path |-> << >>, data |-> m.data, err |-> p.err]
               ELSE [path |-> p.path, data |-> m.data, err |-> ""]))

(***************************************************************************)
(* Derivations: parsing.                                                   *)
(***************************************************************************)

\* parseStringList: the strings of a bracketed list, in the order read.
\* (The callback of each caller is applied to them by the caller's model.)
RECURSIVE parseStringListLoop(_, _, _)
parseStringListLoop(data, s, vals) ==
  Bind(ReadToken(data, s), LAMBDA tok :
  IF tok.err # "" THEN [err |-> tok.err, vals |-> vals, s |-> tok.s]
  ELSE IF tok.kind = String THEN parseStringListLoop(data, tok.s, Append(vals, tok.value))
  ELSE IF tok.kind = RBracket THEN [err |-> "", vals |-> vals, s |-> tok.s]
  ELSE [err |-> "expected string or ']'", vals |-> vals, s |-> tok.s])

parseStringList(data, s) ==
  Bind(ReadToken(data, s), LAMBDA tok :
  IF tok.err # "" THEN [err |-> tok.err, vals |-> << >>, s |-> tok.s]
  ELSE IF tok.kind # LBracket THEN [err |-> "expected '['", vals |-> << >>, s |-> tok.s]
  ELSE parseStringListLoop(data, tok.s, << >>))

\* parseHashAlgorithm: an optional "r:" or "text:" and the name of a hash type.
parseHashAlgorithm(s) ==
  LET isR == HasPrefix(s, <<"r", ":">>)
      s1 == IF isR THEN DropPrefix(s, 2) ELSE s
      isText == ~isR /\ HasPrefix(s1, <<"t", "e", "x", "t", ":">>)
      s2 == IF isText THEN DropPrefix(s1, 5) ELSE s1
      method == IF isR THEN recursiveFileIngestionMethod
                ELSE IF isText THEN textIngestionMethod
                ELSE flatFileIngestionMethod
      typ == ParseHashType(s2)
  IN [err |-> typ.err, method |-> method, typ |-> typ.typ]

OutputError(msg, outName, s) ==
  [err |-> msg, outName |-> outName, out |-> NilOutput, s |-> s]

\* An outputOfTuple that takes every tuple with an empty hash for a
\* floating output, whatever its path.
outputOfTupleFloatingWithoutHash(outName, path, caInfo, hashHex, s) ==
  LET algo == parseHashAlgorithm(caInfo)
      hashBits == HexDecode(hashHex)
  IN IF algo.err # "" THEN OutputError("hash algorithm", outName, s)
     ELSE IF hashBits.err # "" THEN OutputError("hash", outName, s)
     ELSE IF hashHex = << >> THEN
       [err |-> "", outName |-> outName, s |-> s,
        out |-> [nil |-> FALSE, typ |-> floatingCAOutputType, ca |-> ZeroContentAddress,
                 method |-> algo.method, hashAlgo |-> algo.typ]]
     ELSE IF hashHex # << >> THEN
       IF Len(hashBits.bytes) # HashSize(algo.typ)
         THEN OutputError("hash: incorrect size", outName, s)
       ELSE LET h == NewHash(algo.typ, hashBits.bytes) IN
         IF algo.method = flatFileIngestionMethod
           THEN [err |-> "", outName |-> outName, s |-> s,
                 out |-> FixedCAOutput(FlatFileContentAddress(h))]
         ELSE IF algo.method = recursiveFileIngestionMethod
           THEN [err |-> "", outName |-> outName, s |-> s,
                 out |-> FixedCAOutput(RecursiveFileContentAddress(h))]
         ELSE IF algo.method = textIngestionMethod
           THEN [err |-> "", outName |-> outName, s |-> s,
                 out |-> FixedCAOutput(TextContentAddress(h))]
         ELSE OutputError("unhandled hash algorithm", outName, s)
     ELSE OutputError("unknown type", outName, s)

\* The last part of parseDerivationOutput: the output that the strings of
\* a tuple describe.
outputOfTuple(outName, path, caInfo, hashHex, s) ==
  LET algo == parseHashAlgorithm(caInfo)
      hashBits == HexDecode(hashHex)
  IN IF algo.err # "" THEN OutputError("hash algorithm", outName, s)
     ELSE IF hashBits.err # "" THEN OutputError("hash", outName, s)
     ELSE IF path = << >> /\ hashHex = << >> THEN
       [err |-> "", outName |-> outName, s |-> s,
        out |-> [nil |-> FALSE, typ |-> floatingCAOutputType, ca |-> ZeroContentAddress,
                 method |-> algo.method, hashAlgo |-> algo.typ]]
     ELSE IF hashHex # << >> THEN
       IF Len(hashBits.bytes) # HashSize(algo.typ)
         THEN OutputError("hash: incorrect size", outName, s)
       ELSE LET h == NewHash(algo.typ, hashBits.bytes) IN
         IF algo.method = flatFileIngestionMethod
           THEN [err |-> "", outName |-> outName, s |-> s,
                 out |-> FixedCAOutput(FlatFileContentAddress(h))]
         ELSE IF algo.method = recursiveFileIngestionMethod
           THEN [err |-> "", outName |-> outName, s |-> s,
                 out |-> FixedCAOutput(RecursiveFileContentAddress(h))]
         ELSE IF algo.method = textIngestionMethod
           THEN [err |-> "", outName |-> outName, s |-> s,
                 out |-> FixedCAOutput(TextContentAddress(h))]
         ELSE OutputError("unhandled hash algorithm", outName, s)
     ELSE OutputError("unknown type", outName, s)

\* parseDerivationOutput: '(' name ',' path ',' hash algorithm ',' hash ')'.
parseDerivationOutput(data, s) ==
  Bind(ReadToken(data, s), LAMBDA t1 :
  IF t1.err # "" THEN OutputError(t1.err, << >>, t1.s)
  ELSE IF t1.kind # LParen THEN OutputError("expected '('", << >>, t1.s)
  ELSE Bind(ReadToken(data, t1.s), LAMBDA t2 :
  IF t2.err # "" THEN OutputError(t2.err, << >>, t2.s)
  ELSE IF t2.kind # String THEN OutputError("name: expected string", << >>, t2.s)
  ELSE Bind(ReadToken(data, t2.s), LAMBDA t3 :
  IF t3.err # "" THEN OutputError(t3.err, << >>, t3.s)
  ELSE IF t3.kind # String THEN OutputError("path: expected string", << >>, t3.s)
  ELSE Bind(ReadToken(data, t3.s), LAMBDA t4 :
  IF t4.err # "" THEN OutputError(t4.err, << >>, t4.s)
  ELSE IF t4.kind # String THEN OutputError("hash algorithm: expected string", << >>, t4.s)
  ELSE Bind(ReadToken(data, t4.s), LAMBDA t5 :
  IF t5.err # "" THEN OutputError(t5.err, << >>, t5.s)
  ELSE IF t5.kind # String THEN OutputError("hash: expected string", << >>, t5.s)
  ELSE Bind(ReadToken(data, t5.s), LAMBDA t6 :
  IF t6.err # "" THEN OutputError(t6.err, << >>, t6.s)
  ELSE IF t6.kind # RParen THEN OutputError("expected ')'", << >>, t6.s)
  ELSE outputOfTuple(t2.value, t3.value, t4.value, t5.value, t6.s)))))))

InputError(msg, s) == [err |-> msg, drvPath |-> << >>, outputNames |-> << >>, s |-> s]

\* parseInputDerivation: '(' path ',' '[' output names ']' ')'.  The
\* output names are added to a sorted set as they are read.
parseInputDerivation(data, s) ==
  Bind(ReadToken(data, s), LAMBDA t1 :
  IF t1.err # "" THEN InputError(t1.err, t1.s)
  ELSE IF t1.kind # LParen THEN InputError("expected '('", t1.s)
  ELSE Bind(ReadToken(data, t1.s), LAMBDA t2 :
  IF t2.err # "" THEN InputError(t2.err, t2.s)
  ELSE IF t2.kind # String THEN InputError("name: expected string", t2.s)
  ELSE Bind(parseStringList(data, t2.s), LAMBDA names :
  IF names.err # "" THEN InputError(names.err, names.s)
  ELSE Bind(ReadToken(data, names.s), LAMBDA t3 :
  IF t3.err # "" THEN InputError(t3.err, t3.s)
  ELSE IF t3.kind # RParen THEN InputError("expected ')'", t3.s)
  ELSE Bind(ParsePath(t2.value), LAMBDA drvPath :
  IF drvPath.err # "" THEN InputError(drvPath.err, t3.s)
  ELSE [err |-> "", drvPath |-> drvPath.path,
        outputNames |-> SetAddAll(<< >>, names.vals), s |-> t3.s])))))

\* The loop of parseTuple that reads the outputs, up to the closing bracket.
RECURSIVE parseOutputsLoop(_, _, _)
parseOutputsLoop(data, s, outputs) ==
  Bind(ReadToken(data, s), LAMBDA tok :
  IF tok.err # "" THEN [err |-> tok.err, outputs |-> outputs, s |-> tok.s]
  ELSE IF tok.kind = RBracket THEN [err |-> "", outputs |-> outputs, s |-> tok.s]
  ELSE Bind(parseDerivationOutput(data, s), LAMBDA o :
    IF o.err # "" THEN [err |-> o.err, outputs |-> outputs, s |-> o.s]
    ELSE IF o.outName \in DOMAIN outputs
      THEN [err |-> "multiple outputs", outputs |-> outputs, s |-> o.s]
    ELSE parseOutputsLoop(data, o.s, MapPut(outputs, o.outName, o.out))))

\* A loop that accepts input derivations of any store directory.
RECURSIVE parseInputDerivationsLoopAnyDir(_, _, _, _)
parseInputDerivationsLoopAnyDir(dir, data, s, inputs) ==
  Bind(ReadToken(data, s), LAMBDA tok :
  IF tok.err # "" THEN [err |-> tok.err, inputs |-> inputs, s |-> tok.s]
  ELSE IF tok.kind = RBracket THEN [err |-> "", inputs |-> inputs, s |-> tok.s]
  ELSE Bind(parseInputDerivation(data, s), LAMBDA d :
    IF d.err # "" THEN [err |-> d.err, inputs |-> inputs, s |-> d.s]
    ELSE IF d.drvPath \in DOMAIN inputs
      THEN [err |-> "multiple input derivations", inputs |-> inputs, s |-> d.s]
    ELSE parseInputDerivationsLoopAnyDir(dir, data, d.s, MapPut(inputs, d.drvPath, d.outputNames))))

\* The loop of parseTuple that reads the input derivations.
RECURSIVE parseInputDerivationsLoop(_, _, _, _)
parseInputDerivationsLoop(dir, data, s, inputs) ==
  Bind(ReadToken(data, s), LAMBDA tok :
  IF tok.err # "" THEN [err |-> tok.err, inputs |-> inputs, s |-> tok.s]
  ELSE IF tok.kind = RBracket THEN [err |-> "", inputs |-> inputs, s |-> tok.s]
  ELSE Bind(parseInputDerivation(data, s), LAMBDA d :
    IF d.err # "" THEN [err |-> d.err, inputs |-> inputs, s |-> d.s]
    ELSE IF PathDir(d.drvPath) # dir
      THEN [err |-> "input derivation not in directory", inputs |-> inputs, s |-> d.s]
    ELSE IF d.drvPath \in DOMAIN inputs
      THEN [err |-> "multiple input derivations", inputs |-> inputs, s |-> d.s]
    ELSE parseInputDerivationsLoop(dir, data, d.s, MapPut(inputs, d.drvPath, d.outputNames))))

\* The callback of the input source list: every string is parsed as a
\* store path and added to the sorted set; the first failure ends the list.
inputSourcesOf(vals) ==
  LET paths == [i \in 1..Len(vals) |-> ParsePath(vals[i])]
  IN [err |-> FirstError(paths),
      set |-> SetAddAll(<< >>, [i \in 1..Len(vals) |-> paths[i].path])]

\* A parseEnv loop that lets a later entry replace an earlier one of the same key.
RECURSIVE parseEnvLoopOverwriting(_, _, _)
parseEnvLoopOverwriting(data, s, env) ==
  Bind(ReadToken(data, s), LAMBDA t1 :
  IF t1.err # "" THEN [err |-> t1.err, env |-> env, s |-> t1.s]
  ELSE IF t1.kind = RBracket THEN [err |-> "", env |-> env, s |-> t1.s]
  ELSE IF t1.kind # LParen THEN [err |-> "env: expected ']' or '('", env |-> env, s |-> t1.s]
  ELSE Bind(ReadToken(data, t1.s), LAMBDA t2 :
  IF t2.err # "" THEN [err |-> t2.err, env |-> env, s |-> t2.s]
  ELSE IF t2.kind # String THEN [err |-> "env: expected string", env |-> env, s |-> t2.s]
  ELSE Bind(ReadToken(data, t2.s), LAMBDA t3 :
  IF t3.err # "" THEN [err |-> t3.err, env |-> env, s |-> t3.s]
  ELSE IF t3.kind # String THEN [err |-> "env: expected string", env |-> env, s |-> t3.s]
  ELSE Bind(ReadToken(data, t3.s), LAMBDA t4 :
  IF t4.err # "" THEN [err |-> t4.err, env |-> env, s |-> t4.s]
  ELSE IF t4.kind # RParen THEN [err |-> "env: expected ')'", env |-> env, s |-> t4.s]
  ELSE parseEnvLoopOverwriting(data, t4.s, MapPut(env, t2.value, t3.value))))))

\* Derivation.parseEnv: '[' then '(' key ',' value ')' entries up to ']'.
RECURSIVE parseEnvLoop(_, _, _)
parseEnvLoop(data, s, env) ==
  Bind(ReadToken(data, s), LAMBDA t1 :
  IF t1.err # "" THEN [err |-> t1.err, env |-> env, s |-> t1.s]
  ELSE IF t1.kind = RBracket THEN [err |-> "", env |-> env, s |-> t1.s]
  ELSE IF t1.kind # LParen THEN [err |-> "env: expected ']' or '('", env |-> env, s |-> t1.s]
  ELSE Bind(ReadToken(data, t1.s), LAMBDA t2 :
  IF t2.err # "" THEN [err |-> t2.err, env |-> env, s |-> t2.s]
  ELSE IF t2.kind # String THEN [err |-> "env: expected string", env |-> env, s |-> t2.s]
  ELSE IF t2.value \in DOMAIN env THEN [err |-> "env: multiple entries", env |-> env, s |-> t2.s]
  ELSE Bind(ReadToken(data, t2.s), LAMBDA t3 :
  IF t3.err # "" THEN [err |-> t3.err, env |-> env, s |-> t3.s]
  ELSE IF t3.kind # String THEN [err |-> "env: expected string", env |-> env, s |-> t3.s]
  ELSE Bind(ReadToken(data, t3.s), LAMBDA t4 :
  IF t4.err # "" THEN [err |-> t4.err, env |-> env, s |-> t4.s]
  ELSE IF t4.kind # RParen THEN [err |-> "env: expected ')'", env |-> env, s |-> t4.s]
  ELSE parseEnvLoop(data, t4.s, MapPut(env, t2.value, t3.value))))))

parseEnv(data, s) ==
  Bind(ReadToken(data, s), LAMBDA tok :
  IF tok.err # "" THEN [err |-> tok.err, env |-> EmptyMap, s |-> tok.s]
  ELSE IF tok.kind # LBracket THEN [err |-> "env: expected '['", env |-> EmptyMap, s |-> tok.s]
  ELSE parseEnvLoop(data, tok.s, EmptyMap))

\* The derivation ParseDerivation starts from.
NewDerivation(dir, name) ==
  [nil |-> FALSE, Dir |-> dir, Name |-> name, System |-> << >>, Builder |-> << >>, Args |-> << >>,
   Env |-> EmptyMap, InputSources |-> << >>, InputDerivations |-> EmptyMap,
   Outputs |-> EmptyMap]

TupleError(msg, drv, s) == [err |-> msg, drv |-> drv, s |-> s]

\* Derivation.parseTuple: the tuple after the Derive constructor, read into drv.
parseTuple(drv, data, s) ==
  Bind(ReadToken(data, s), LAMBDA t1 :
  IF t1.err # "" THEN TupleError(t1.err, drv, t1.s)
  ELSE IF t1.kind # LParen THEN TupleError("expected '('", drv, t1.s)
  ELSE Bind(ReadToken(data, t1.s), LAMBDA t2 :
  IF t2.err # "" THEN TupleError(t2.err, drv, t2.s)
  ELSE IF t2.kind # LBracket THEN TupleError("expected '['", drv, t2.s)
  ELSE Bind(parseOutputsLoop(data, t2.s, EmptyMap), LAMBDA outs :
  IF outs.err # "" THEN TupleError(outs.err, drv, outs.s)
  ELSE Bind(ReadToken(data, outs.s), LAMBDA t3 :
  IF t3.err # "" THEN TupleError(t3.err, drv, t3.s)
  ELSE IF t3.kind # LBracket THEN TupleError("expected '[' after outputs list", drv, t3.s)
  ELSE Bind(parseInputDerivationsLoop(drv.Dir, data, t3.s, EmptyMap), LAMBDA ins :
  IF ins.err # "" THEN TupleError(ins.err, drv, ins.s)
  ELSE Bind(parseStringList(data, ins.s), LAMBDA srcList :
  Bind(inputSourcesOf(srcList.vals), LAMBDA srcs :
  IF srcList.err # "" THEN TupleError(srcList.err, drv, srcList.s)
  ELSE IF srcs.err # "" THEN TupleError(srcs.err, drv, srcList.s)
  ELSE Bind(ReadToken(data, srcList.s), LAMBDA t4 :
  IF t4.err # "" THEN TupleError(t4.err, drv, t4.s)
  ELSE IF t4.kind # String THEN TupleError("system: expected string", drv, t4.s)
  ELSE Bind(ReadToken(data, t4.s), LAMBDA t5 :
  IF t5.err # "" THEN TupleError(t5.err, drv, t5.s)
  ELSE IF t5.kind # String THEN TupleError("builder: expected string", drv, t5.s)
  ELSE Bind(parseStringList(data, t5.s), LAMBDA args :
  IF args.err # "" THEN TupleError(args.err, drv, args.s)
  ELSE Bind(parseEnv(data, args.s), LAMBDA env :
  IF env.err # "" THEN TupleError(env.err, drv, env.s)
  ELSE Bind(ReadToken(data, env.s), LAMBDA t6 :
  IF t6.err # "" THEN TupleError(t6.err, drv, t6.s)
  ELSE IF t6.kind # RParen THEN TupleError("expected ')'", drv, t6.s)
  ELSE [err |-> "",
        drv |-> [nil |-> FALSE, Dir |-> drv.Dir, Name |-> drv.Name,
                 System |-> t4.value, Builder |-> t5.value, Args |-> args.vals,
                 Env |-> env.env, InputSources |-> srcs.set,
                 InputDerivations |-> ins.inputs, Outputs |-> outs.outputs],
        s |-> t6.s]))))))))))))

\* The derivation that stands for Go's nil *Derivation.
NilDerivation == [NewDerivation(<< >>, << >>) EXCEPT !.nil = TRUE]

\* A ParseDerivation that does not look for data after the tuple.
ParseDerivationAnyTrailer(dir, name, data) ==
  LET derive == <<"D", "e", "r", "i", "v", "e">> IN
  IF ~HasPrefix(data, derive)
    THEN [err |-> "'Derive' constructor not found", drv |-> NilDerivation]
  ELSE
    Bind(DropPrefix(data, Len(derive)), LAMBDA rest :
    Bind(parseTuple(NewDerivation(dir, name), rest, NewScanner), LAMBDA t :
      IF t.err # "" THEN [err |-> t.err, drv |-> NilDerivation]
      ELSE [err |-> "", drv |-> t.drv]))

\* ParseDerivation: the derivation written in data, or an error and nil.
ParseDerivation(dir, name, data) ==
  LET derive == <<"D", "e", "r", "i", "v", "e">> IN
  IF ~HasPrefix(data, derive)
    THEN [err |-> "'Derive' constructor not found", drv |-> NilDerivation]
  ELSE
    Bind(DropPrefix(data, Len(derive)), LAMBDA rest :
    Bind(parseTuple(NewDerivation(dir, name), rest, NewScanner), LAMBDA t :
      IF t.err # "" THEN [err |-> t.err, drv |-> NilDerivation]
      ELSE IF Len(rest) - (t.s.pos - 1) > 0
        THEN [err |-> "trailing data", drv |-> NilDerivation]
      ELSE [err |-> "", drv |-> t.drv]))

(***************************************************************************)
(* File paths (path/filepath on a system whose separator is "/").          *)
(***************************************************************************)

\* filepath.Separator, and a Go string written as a sequence of characters.
Separator == "/"

\* strings.Join.
JoinSep(parts, sep) ==
  Concat([i \in 1..Len(parts) |-> IF i = 1 THEN parts[i] ELSE sep \o parts[i]])

\* The k-th smallest member of a set of integers.
NthSmallest(S, k) == CHOOSE x \in S : Cardinality({y \in S : y < x}) = k - 1

\* The parts of s between separators (empty parts included).
SplitSeparator(s) ==
  LET cuts == {0, Len(s) + 1} \cup {i \in 1..Len(s) : s[i] = Separator}
  IN [k \in 1..(Cardinality(cuts) - 1) |->
        SubSeq(s, NthSmallest(cuts, k) + 1, NthSmallest(cuts, k + 1) - 1)]

\* filepath.Clean, its pass over the path elements: "." and the empty
\* element are dropped, ".." removes the element before it, stays in a
\* relative path that has none, and is dropped at the root.
RECURSIVE CleanElements(_, _, _, _)
CleanElements(elems, i, out, rooted) ==
  IF i > Len(elems) THEN out
  ELSE IF elems[i] = << >> \/ elems[i] = <<".">>
    THEN CleanElements(elems, i + 1, out, rooted)
  ELSE IF elems[i] = <<".", ".">>
    THEN IF Len(out) > 0 /\ out[Len(out)] # <<".", ".">>
           THEN CleanElements(elems, i + 1, SubSeq(out, 1, Len(out) - 1), rooted)
         ELSE IF rooted THEN CleanElements(elems, i + 1, out, rooted)
         ELSE CleanElements(elems, i + 1, Append(out, elems[i]), rooted)
  ELSE CleanElements(elems, i + 1, Append(out, elems[i]), rooted)

\* filepath.Clean.
Clean(path) ==
  IF path = << >> THEN <<".">>
  ELSE LET rooted == path[1] = Separator
           out == JoinSep(CleanElements(SplitSeparator(path), 1, << >>, rooted), <<Separator>>)
       IN IF rooted THEN <<Separator>> \o out
          ELSE IF out = << >> THEN <<".">> ELSE out

\* filepath.IsAbs.
IsAbs(path) == HasPrefix(path, <<Separator>>)

\* filepath.FromSlash: every slash becomes the separator.
FromSlash(path) == [i \in 1..Len(path) |-> IF path[i] = "/" THEN Separator ELSE path[i]]

\* filepath.Join of two elements: empty elements are ignored, the rest is
\* joined with the separator and cleaned.
Join(a, b) ==
  IF a = << >> /\ b = << >> THEN << >>
  ELSE IF a = << >> THEN Clean(b)
  ELSE IF b = << >> THEN Clean(a)
  ELSE Clean(a \o <<Separator>> \o b)

\* filepath.Dir: the path up to its last separator, cleaned.
Dir(path) == Clean(SubSeq(path, 1, LastIndex(path, Separator)))

\* filepath.Base: the last element of the path, trailing separators removed.
Base(path) ==
  IF path = << >> THEN <<".">>
  ELSE LET kept == {i \in 1..Len(path) : path[i] # Separator}
       IN IF kept = {} THEN <<Separator>>
          ELSE LET end == CHOOSE i \in kept : \A j \in kept : j <= i
                   stripped == SubSeq(path, 1, end)
               IN SubSeq(stripped, LastIndex(stripped, Separator) + 1, end)

\* filepath.Abs of a path in the working directory wd (os.Getwd: the
\* directory and an error).
Abs(path, wd) ==
  IF IsAbs(path) THEN [path |-> Clean(path), err |-> ""]
  ELSE IF wd.err # "" THEN [path |-> << >>, err |-> wd.err]
  ELSE [path |-> Join(wd.dir, path), err |-> ""]

(***************************************************************************)
(* The path argument of an import (src/path_eval.go).                      *)
(***************************************************************************)

\* lua.State.Stack(1).Info("S"): no information, or the source of the chunk
\* of the calling function.
NoDebugInfo == [nil |-> TRUE, Source |-> << >>]
DebugInfo(source) == [nil |-> FALSE, Source |-> source]

\* An absSourcePath that joins a relative path to the source file itself.
absSourcePathFromFile(debugInfo, wd, path) ==
  IF IsAbs(path) THEN [path |-> path, err |-> ""]
  ELSE IF debugInfo.nil
    THEN [path |-> << >>, err |-> "resolve path: no caller information available"]
  ELSE IF ~HasPrefix(debugInfo.Source, <<"@">>)
    THEN Bind(Abs(FromSlash(path), wd), LAMBDA abs :
           IF abs.err # "" THEN [path |-> << >>, err |-> "resolve path: getwd"]
           ELSE [path |-> abs.path, err |-> ""])
  ELSE [path |-> Join(DropPrefix(debugInfo.Source, 1), FromSlash(path)), err |-> ""]

\* absSourcePath: the source path of an argument of the calling function.
absSourcePath(debugInfo, wd, path) ==
  IF IsAbs(path) THEN [path |-> path, err |-> ""]
  ELSE IF debugInfo.nil
    THEN [path |-> << >>, err |-> "resolve path: no caller information available"]
  ELSE IF ~HasPrefix(debugInfo.Source, <<"@">>)
    THEN Bind(Abs(FromSlash(path), wd), LAMBDA abs :
           IF abs.err # "" THEN [path |-> << >>, err |-> "resolve path: getwd"]
           ELSE [path |-> abs.path, err |-> ""])
  ELSE [path |-> Join(Dir(DropPrefix(debugInfo.Source, 1)), FromSlash(path)), err |-> ""]

\* The argument of the Lua function path: a string, a table with the fields
\* path and name (Nil when the field is nil), or a value of another type.
Nil == <<"nil">>
StringArg(p) == [typ |-> "string", path |-> p, name |-> Nil]
TableArg(p, name) == [typ |-> "table", path |-> p, name |-> name]
OtherArg == [typ |-> "number", path |-> Nil, name |-> Nil]

\* pathFunction, up to the walk: the path and the name of the import.
pathArguments(arg, debugInfo, wd) ==
  IF arg.typ \notin {"string", "table"}
    THEN [p |-> << >>, name |-> << >>, err |-> "string or table expected"]
  ELSE IF arg.typ = "table" /\ arg.path = Nil
    THEN [p |-> << >>, name |-> << >>, err |-> "missing path"]
  ELSE Bind(absSourcePath(debugInfo, wd, arg.path), LAMBDA abs :
         IF abs.err # "" THEN [p |-> << >>, name |-> << >>, err |-> abs.err]
         ELSE Bind(IF arg.name = Nil THEN << >> ELSE arg.name, LAMBDA name :
                [p |-> abs.path,
                 name |-> IF name = << >> THEN Base(abs.path) ELSE name,
                 err |-> ""]))

(***************************************************************************)
(* The source file system, stamps and the walk (src/path_eval.go).         *)
(***************************************************************************)

\* fs.FileMode: the type bit that is set, by its position (0 when none is,
\* for a regular file), and the permission bits.  fs.ModeDir is bit 31 and
\* fs.ModeSymlink bit 27; FileMode.Type and FileMode.Perm.
ModeDir == 31
ModeSymlink == 27
ModePerm == 511
FileMode(typeBit, perm) == [typeBit |-> typeBit, perm |-> perm % (ModePerm + 1)]
ModeType(mode) == mode.typeBit
Perm(mode) == mode.perm

\* fs.FileInfo as os.Lstat gives it, with the data of a regular file and the
\* target of a symlink.
RegularFile(modTime, inode, data) ==
  [Mode |-> FileMode(0, 420), ModTime |-> modTime, Size |-> Len(data), inode |-> inode,
   uid |-> 1000, gid |-> 100, data |-> data, target |-> << >>]
Directory(modTime, inode) ==
  [Mode |-> FileMode(ModeDir, 493), ModTime |-> modTime, Size |-> 4096, inode |-> inode,
   uid |-> 1000, gid |-> 100, data |-> << >>, target |-> << >>]
Symlink(modTime, inode, target) ==
  [Mode |-> FileMode(ModeSymlink, 511), ModTime |-> modTime, Size |-> Len(target), inode |-> inode,
   uid |-> 1000, gid |-> 100, data |-> << >>, target |-> target]

\* fmt.Sprintf("%d") of a natural number, and "%06d".
DecimalDigits == <<"0", "1", "2", "3", "4", "5", "6", "7", "8", "9">>
RECURSIVE Itoa(_)
Itoa(n) ==
  IF n < 10 THEN <<DecimalDigits[n + 1]>>
  ELSE Itoa(n \div 10) \o <<DecimalDigits[(n % 10) + 1]>>
Pad6(n) ==
  LET d == Itoa(n) IN [i \in 1..(6 - Len(d)) |-> "0"] \o d

\* stampFileInfo; ModTime is [sec, nsec].  The mode it prints is that of a
\* file that is no directory and no symlink: its permission bits.
stampFileInfo(info) ==
  IF ModeType(info.Mode) = ModeDir THEN <<"d", "i", "r">>
  ELSE Itoa(info.ModTime.sec) \o <<".">> \o Pad6(info.ModTime.nsec \div 1000)
         \o <<"-">> \o Itoa(info.Size) \o <<"-">> \o Itoa(info.inode)
         \o <<"-">> \o Itoa(Perm(info.Mode)) \o <<"-">> \o Itoa(info.uid)
         \o <<"-">> \o Itoa(info.gid)

\* stamp.
stamp(info) ==
  IF ModeType(info.Mode) = ModeSymlink
    THEN <<"l", "i", "n", "k", ":">> \o info.target
    ELSE stampFileInfo(info)

\* os.Lstat on a file system (a function from clean absolute paths to
\* FileInfo): the operating system resolves the path.
Exists(fsys, path) == IsAbs(path) /\ Clean(path) \in DOMAIN fsys
Lstat(fsys, path) == fsys[Clean(path)]

\* A row with the size of the entry whatever its type.
walkRowWithSize(path, info) ==
  [path |-> path, mode |-> info.Mode, size |-> info.Size, stamp |-> stamp(info)]

\* The row of the walk relation of one entry.
walkRow(path, info) ==
  [path |-> path, mode |-> info.Mode,
   size |-> IF ModeType(info.Mode) = 0 THEN info.Size ELSE 0 - 1,
   stamp |-> stamp(info)]

\* walkPath: the rows of the relation "curr" for the tree at path.  The
\* root is reported under the path given, every entry below it under the
\* root joined with its path from the root (filepath.WalkDir).
walkPath(fsys, path) ==
  IF ~Exists(fsys, path) THEN [rows |-> {}, err |-> "walk: lstat"]
  ELSE IF ModeType(Lstat(fsys, path).Mode) = ModeSymlink
    THEN [rows |-> {walkRow(path, Lstat(fsys, path))}, err |-> ""]
  ELSE Bind(Clean(path), LAMBDA root :
         [rows |->
            {walkRow(path, fsys[root])} \cup
            {walkRow(Join(path, DropPrefix(n, Len(root) + 1)), fsys[n]) :
               n \in {m \in DOMAIN fsys :
                        /\ ModeType(fsys[root].Mode) = ModeDir
                        /\ HasPrefix(m, root \o <<Separator>>)}},
          err |-> ""])

\* A comparison of the cleaned paths byte by byte.
collatePathBytewise(a0, b0) ==
  IF Clean(a0) = Clean(b0) THEN 0
  ELSE IF StrLess(Clean(a0), Clean(b0)) THEN 0 - 1 ELSE 1

\* collatePath: -1, 0 or 1 as a sorts before, with or after b.
collatePath(a0, b0) ==
  LET a == Clean(a0)
      b == Clean(b0)
      m == IF Len(a) < Len(b) THEN Len(a) ELSE Len(b)
      decided == {i \in 1..m :
                    \/ (a[i] = Separator) # (b[i] = Separator)
                    \/ a[i] # Separator /\ b[i] # Separator /\ a[i] # b[i]}
  IN IF decided # {}
       THEN LET i == CHOOSE k \in decided : \A j \in decided : k <= j
            IN IF a[i] = Separator THEN 0 - 1
               ELSE IF b[i] = Separator THEN 1
               ELSE IF Code(a[i]) < Code(b[i]) THEN 0 - 1 ELSE 1
     ELSE IF Len(a) < Len(b) THEN 0 - 1
     ELSE IF Len(a) > Len(b) THEN 1
     ELSE 0

\* The rows of a walk in the order of collatePath (walk/iterate.sql).
iterate(rows) ==
  [k \in 1..Cardinality(rows) |->
     CHOOSE r \in rows :
       Cardinality({q \in rows : collatePath(q.path, r.path) < 0}) = k - 1]

(***************************************************************************)
(* NAR streams, the import connection and the cache of source imports.     *)
(***************************************************************************)

\* A string of a NAR stream: its length, then its bytes.
narString(s) == Itoa(Len(s)) \o <<":">> \o s

\* The bytes nar.Writer writes for a header and, for a regular file, its
\* data: the path, the type and what the type needs.
narEntry(h) ==
  narString(h.Path) \o
  (IF ModeType(h.Mode) = ModeDir THEN narString(<<"d">>)
   ELSE IF ModeType(h.Mode) = ModeSymlink THEN narString(<<"l">>) \o narString(h.LinkTarget)
   ELSE narString(IF (Perm(h.Mode) \div 64) % 2 = 1 THEN <<"x">> ELSE <<"r">>)
          \o narString(h.data))

\* The bytes of a whole NAR: the magic, the entries, the end.
narBytes(headers) ==
  narString(<<"n", "i", "x", "-", "a", "r", "c", "h", "i", "v", "e", "-", "1">>)
    \o Concat([i \in 1..Len(headers) |-> narEntry(headers[i])])
    \o narString(<<")">>)

\* writeSingleFileNAR: one header of the size of the data, the data, Close.
writeSingleFileNAR(data) ==
  narBytes(<<[Path |-> << >>, Mode |-> FileMode(0, 0), Size |-> Len(data),
              LinkTarget |-> << >>, data |-> data]>>)

\* The header pathFunction writes for a row of the walk, with the data it
\* copies from the file for a regular file.
narHeaderOf(row, p, fsys) ==
  LET subpath ==
        IF row.path = p THEN << >>
        ELSE DropPrefix(row.path, Len(p) + 1)
  IN IF ModeType(row.mode) = ModeDir
       THEN [Path |-> subpath, Mode |-> FileMode(ModeDir, 511), Size |-> 0,
             LinkTarget |-> << >>, data |-> << >>]
     ELSE IF ModeType(row.mode) = ModeSymlink
       THEN [Path |-> subpath, Mode |-> FileMode(ModeSymlink, 511), Size |-> 0,
             LinkTarget |-> Lstat(fsys, row.path).target, data |-> << >>]
     ELSE [Path |-> subpath, Mode |-> FileMode(0, Perm(row.mode)), Size |-> row.size,
           LinkTarget |-> << >>, data |-> Lstat(fsys, row.path).data]

\* A streaming that does not compare the bytes copied with the size.
streamErrorOfAnySize(row, p, fsys) ==
  IF row.path # p /\ ~HasPrefix(row.path, p \o <<Separator>>)
    THEN "can't make path relative"
  ELSE IF ModeType(row.mode) # 0 THEN ""
  ELSE IF ~Exists(fsys, row.path) THEN "open"
  ELSE ""

\* The error of the streaming of one row, if any.
streamErrorOf(row, p, fsys) ==
  IF row.path # p /\ ~HasPrefix(row.path, p \o <<Separator>>)
    THEN "can't make path relative"
  ELSE IF ModeType(row.mode) # 0 THEN ""
  ELSE IF ~Exists(fsys, row.path) THEN "open"
  ELSE IF Len(Lstat(fsys, row.path).data) # row.size THEN "changed size during import"
  ELSE ""

\* The streaming loop of pathFunction over the rows of the walk, in order:
\* the headers written, up to the first error.
streamWalk(rows, p, fsys) ==
  LET ordered == iterate(rows)
      failing == {i \in 1..Len(ordered) : streamErrorOf(ordered[i], p, fsys) # ""}
  IN IF failing = {}
       THEN [headers |-> [i \in 1..Len(ordered) |-> narHeaderOf(ordered[i], p, fsys)],
             err |-> ""]
     ELSE LET first == CHOOSE i \in failing : \A j \in failing : i <= j
          IN [headers |-> [i \in 1..(first - 1) |-> narHeaderOf(ordered[i], p, fsys)],
              err |-> streamErrorOf(ordered[first], p, fsys)]

\* The stamps of a walk: what copy_walk.sql stores under a mapping.
stampsOf(rows) == {[path |-> r.path, stamp |-> r.stamp] : r \in rows}

\* find.sql: the store paths recorded for the name whose stamps are those
\* of the current walk.
find(db, rows, name) ==
  {m.path : m \in {c \in db :
      /\ c.stamps = stampsOf(rows)
      /\ PathName(c.path) = name}}

\* checkStamp on the rows find.sql returns: rows that are not store paths
\* of the store directory are skipped, a second one is an error, none is
\* an error.
checkStamp(found, storeDir) ==
  LET matching == {s \in found : ParsePath(s).err = "" /\ PathDir(s) = storeDir}
  IN IF Cardinality(matching) > 1
       THEN [path |-> << >>, err |-> "multiple store paths found (hash collision)"]
     ELSE IF matching = {} THEN [path |-> << >>, err |-> "no match"]
     ELSE [path |-> CHOOSE s \in matching : TRUE, err |-> ""]

\* A checkStamp that takes a row of any store directory.
checkStampAnyDir(found, storeDir) ==
  LET matching == {s \in found : ParsePath(s).err = ""}
  IN IF Cardinality(matching) > 1
       THEN [path |-> << >>, err |-> "multiple store paths found (hash collision)"]
     ELSE IF matching = {} THEN [path |-> << >>, err |-> "no match"]
     ELSE [path |-> CHOOSE s \in matching : TRUE, err |-> ""]

\* invalidate.sql: the mappings that stay, which are those of store paths on
\* disk whose stamps do not differ from the walk on a path of the walk.
invalidate(db, rows, onDisk) ==
  {m \in db :
     /\ m.path \in onDisk
     /\ \A s \in m.stamps : \A r \in rows : r.path = s.path => r.stamp = s.stamp}

\* updateCache: invalidate, then the row of the store object and the new
\* mapping with the stamps of the walk.
updateCache(db, rows, storePath, onDisk) ==
  invalidate(db, rows, onDisk) \cup {[path |-> storePath, stamps |-> stampsOf(rows)]}

(***************************************************************************)
(* The evaluator at rest.                                                  *)
(***************************************************************************)

NoResolve == [state |-> "idle"]
EvalIdle == [pc |-> "idle"]

\* The variables of imports before any import.
ImportIdle ==
  /\ files = [n \in {} |-> 0]
  /\ disk = {}
  /\ cache = {}
  /\ eval = EvalIdle
  /\ imported = [n \in {} |-> 0]

\* The cache connection with no relation "curr" and no transaction, and the
\* cache database with no row.
NoCurr == [exists |-> FALSE, rows |-> {}]
NoTables == [objects |-> {}, mappings |-> {}]
NoTransaction == [open |-> FALSE, owner |-> 0, pending |-> NoTables, steps |-> << >>]
NoConn == [curr |-> NoCurr, tx |-> NoTransaction]

\* The variables of the calls of path by goroutine before any call.
NoCompare == [state |-> "idle"]
PipelineIdle ==
  /\ compared = NoCompare
  /\ calls = [g \in {} |-> 0]
  /\ conn = NoConn
  /\ tables = NoTables

EvalAtRest == resolve = NoResolve /\ ImportIdle /\ PipelineIdle

(***************************************************************************)
(* The inputs of the model.                                                *)
(***************************************************************************)

\* Two store directories and some store paths in them.
StoreDir == <<"/", "z", "b", "/", "s", "t", "o", "r", "e">>
OtherDir == <<"/", "o", "p", "t", "/", "z", "b">>

Digest0 == [i \in 1..objectNameDigestLength |-> "0"]
Digest1 == [i \in 1..objectNameDigestLength |-> "1"]

SrcA == StoreDir \o <<"/">> \o Digest0 \o <<"-", "a">>
SrcB == StoreDir \o <<"/">> \o Digest1 \o <<"-", "b">>
SrcForeign == OtherDir \o <<"/">> \o Digest0 \o <<"-", "a">>
DrvA == StoreDir \o <<"/">> \o Digest0 \o <<"-", "a", ".", "d", "r", "v">>
DrvB == StoreDir \o <<"/">> \o Digest1 \o <<"-", "b", ".", "d", "r", "v">>
DrvForeign == OtherDir \o <<"/">> \o Digest0 \o <<"-", "a", ".", "d", "r", "v">>
DrvNoExt == StoreDir \o <<"/">> \o Digest1 \o <<"-", "c">>

\* Two SHA-256 hashes and an MD5 hash.
Hash1 == NewHash("sha256", [i \in 1..32 |-> i])
Hash2 == NewHash("sha256", [i \in 1..32 |-> 255 - i])
HashMD5 == NewHash("md5", [i \in 1..16 |-> 16 * i - 1])

NameX == <<"x">>
NameHello == <<"h", "e", "l", "l", "o">>
OutDev == <<"d", "e", "v">>
OutBin == <<"b", "i", "n">>

(***************************************************************************)
(* Store path computations.                                                *)
(***************************************************************************)

\* The most references added to a reference set before a call.
MaxRefs == 2

RefChoices == {SrcA, SrcB, DrvA}
TypChoices == {<<"t", "e", "x", "t">>, <<"s", "o", "u", "r", "c", "e">>}

NoCall ==
  [made |-> FALSE, typ |-> << >>, added |-> << >>, refs |-> NoReferences,
   hashed |-> << >>, result |-> [err |-> "", path |-> << >>]]

NoPathCall ==
  [made |-> FALSE, out |-> NilOutput, store |-> << >>, drvName |-> << >>,
   outputName |-> << >>,
   result |-> [path |-> << >>, ok |-> FALSE],
   isFixed |-> FALSE, isFloating |-> FALSE]

(***************************************************************************)
(* Derivation texts: the inputs of ParseDerivation.                        *)
(***************************************************************************)

\* The most parts (list entries, trailing bytes, departures from the usual
\* constructor, directory and name) a text is put together from.
MaxInput == 2

Derive == <<"D", "e", "r", "i", "v", "e">>
SystemName == <<"l", "n", "x">>
BuilderPath == <<"/", "s", "h">>
SHA256Name == <<"s", "h", "a", "2", "5", "6">>

OutputEntry(name, path, caInfo, hashHex) ==
  [name |-> name, path |-> path, caInfo |-> caInfo, hashHex |-> hashHex]

OutputEntryChoices ==
  {OutputEntry(DefaultDerivationOutputName, << >>, <<"r", ":">> \o SHA256Name, << >>),
   OutputEntry(DefaultDerivationOutputName, << >>, SHA256Name, HexEncode(Hash1.bits)),
   OutputEntry(OutDev, << >>, SHA256Name, << >>),
   OutputEntry(OutDev, << >>, <<"t", "e", "x", "t", ":">> \o SHA256Name, HexEncode(Hash2.bits)),
   OutputEntry(OutDev, SrcA, <<"r", ":">> \o SHA256Name, HexEncode(Hash1.bits)),
   OutputEntry(DefaultDerivationOutputName, << >>, <<"t", "e", "x", "t", ":">> \o SHA256Name, << >>),
   OutputEntry(DefaultDerivationOutputName, SrcA, SHA256Name, << >>),
   OutputEntry(OutBin, << >>, <<"t", "e", "x", "t", ":", "m", "d", "5">>, HexEncode(HashMD5.bits)),
   OutputEntry(OutBin, << >>, SHA256Name, HexEncode(HashMD5.bits))}

InputDerivationEntryChoices ==
  {[path |-> DrvB, outs |-> <<DefaultDerivationOutputName, OutDev>>],
   [path |-> DrvA, outs |-> <<DefaultDerivationOutputName>>],
   [path |-> DrvA, outs |-> <<OutDev>>],
   [path |-> DrvForeign, outs |-> <<DefaultDerivationOutputName>>],
   [path |-> DrvNoExt, outs |-> <<DefaultDerivationOutputName>>]}

InputSourceChoices == {SrcB, SrcA, SrcForeign, <<"a">>}

ArgChoices == {<<"-", "c">>, <<"a">>, <<Quote, Backslash, "\n">>}

EnvEntryChoices ==
  {[key |-> <<"k", "2">>, value |-> <<"v">>],
   [key |-> <<"k", "1">>, value |-> << >>],
   [key |-> <<"k", "1">>, value |-> <<"w", "\t">>]}

TrailingChoices == {"\n", ")", ","}
ConstructorChoices == {<< >>, <<"d", "e", "r", "i", "v", "e">>}

EmptyDoc ==
  [dir |-> StoreDir, name |-> NameX, ctor |-> Derive,
   outputs |-> << >>, inputDrvs |-> << >>, srcs |-> << >>,
   args |-> << >>, env |-> << >>, trailing |-> << >>]

Size(d) ==
  Len(d.outputs) + Len(d.inputDrvs) + Len(d.srcs) + Len(d.args) + Len(d.env)
    + Len(d.trailing)
    + (IF d.ctor # Derive THEN 1 ELSE 0)
    + (IF d.dir # StoreDir THEN 1 ELSE 0)
    + (IF d.name # NameX THEN 1 ELSE 0)

\* The text of a document.
Render(d) ==
  d.ctor \o <<"(", "[">>
    \o JoinComma([i \in 1..Len(d.outputs) |->
         <<"(">> \o AppendString(<< >>, d.outputs[i].name)
           \o <<",">> \o AppendString(<< >>, d.outputs[i].path)
           \o <<",">> \o AppendString(<< >>, d.outputs[i].caInfo)
           \o <<",">> \o AppendString(<< >>, d.outputs[i].hashHex) \o <<")">>])
    \o <<"]", ",", "[">>
    \o JoinComma([i \in 1..Len(d.inputDrvs) |->
         <<"(">> \o AppendString(<< >>, d.inputDrvs[i].path) \o <<",", "[">>
           \o JoinComma([j \in 1..Len(d.inputDrvs[i].outs) |->
                AppendString(<< >>, d.inputDrvs[i].outs[j])])
           \o <<"]", ")">>])
    \o <<"]", ",", "[">>
    \o JoinComma([i \in 1..Len(d.srcs) |-> AppendString(<< >>, d.srcs[i])])
    \o <<"]", ",">> \o AppendString(<< >>, SystemName)
    \o <<",">> \o AppendString(<< >>, BuilderPath)
    \o <<",", "[">>
    \o JoinComma([i \in 1..Len(d.args) |-> AppendString(<< >>, d.args[i])])
    \o <<"]", ",", "[">>
    \o JoinComma([i \in 1..Len(d.env) |->
         <<"(">> \o AppendString(<< >>, d.env[i].key)
           \o <<",">> \o AppendString(<< >>, d.env[i].value) \o <<")">>])
    \o <<"]", ")">>
    \o d.trailing

NoParse == [err |-> "", drv |-> NilDerivation]
NoMarshal == [err |-> "", data |-> << >>]
NoExport == [path |-> << >>, data |-> << >>, err |-> ""]

CodecIdle ==
  /\ doc = EmptyDoc
  /\ pc = "compose"
  /\ parsed = NoParse
  /\ marshalled = NoMarshal
  /\ reparsed = NoParse
  /\ remarshalled = NoMarshal
  /\ exported = NoExport

(***************************************************************************)
(* Parsing, marshalling and exporting derivations.                         *)
(***************************************************************************)

Composing == pc = "compose" /\ Size(doc) < MaxInput

AddOutput(e) ==
  /\ Composing
  /\ doc' = [doc EXCEPT !.outputs = Append(@, e)]
  /\ UNCHANGED <<pc, parsed, marshalled, reparsed, remarshalled, exported>>
  /\ UNCHANGED <<pathVars, evalVars>>

AddInputDerivation(e) ==
  /\ Composing
  /\ doc' = [doc EXCEPT !.inputDrvs = Append(@, e)]
  /\ UNCHANGED <<pc, parsed, marshalled, reparsed, remarshalled, exported>>
  /\ UNCHANGED <<pathVars, evalVars>>

AddInputSource(src) ==
  /\ Composing
  /\ doc' = [doc EXCEPT !.srcs = Append(@, src)]
  /\ UNCHANGED <<pc, parsed, marshalled, reparsed, remarshalled, exported>>
  /\ UNCHANGED <<pathVars, evalVars>>

AddArg(arg) ==
  /\ Composing
  /\ doc' = [doc EXCEPT !.args = Append(@, arg)]
  /\ UNCHANGED <<pc, parsed, marshalled, reparsed, remarshalled, exported>>
  /\ UNCHANGED <<pathVars, evalVars>>

AddEnv(e) ==
  /\ Composing
  /\ doc' = [doc EXCEPT !.env = Append(@, e)]
  /\ UNCHANGED <<pc, parsed, marshalled, reparsed, remarshalled, exported>>
  /\ UNCHANGED <<pathVars, evalVars>>

AddTrailing(c) ==
  /\ Composing
  /\ doc' = [doc EXCEPT !.trailing = Append(@, c)]
  /\ UNCHANGED <<pc, parsed, marshalled, reparsed, remarshalled, exported>>
  /\ UNCHANGED <<pathVars, evalVars>>

SetConstructor(c) ==
  /\ Composing
  /\ doc.ctor = Derive
  /\ doc' = [doc EXCEPT !.ctor = c]
  /\ UNCHANGED <<pc, parsed, marshalled, reparsed, remarshalled, exported>>
  /\ UNCHANGED <<pathVars, evalVars>>

SetDir(dir) ==
  /\ Composing
  /\ doc.dir = StoreDir
  /\ doc' = [doc EXCEPT !.dir = dir]
  /\ UNCHANGED <<pc, parsed, marshalled, reparsed, remarshalled, exported>>
  /\ UNCHANGED <<pathVars, evalVars>>

SetName(name) ==
  /\ Composing
  /\ doc.name = NameX
  /\ doc' = [doc EXCEPT !.name = name]
  /\ UNCHANGED <<pc, parsed, marshalled, reparsed, remarshalled, exported>>
  /\ UNCHANGED <<pathVars, evalVars>>

\* The orders in which the three maps of a derivation may iterate.
Iterations(drv) ==
  {[outputs |-> a, inputDerivations |-> b, env |-> c] :
     a \in Enumerations(DOMAIN drv.Outputs),
     b \in Enumerations(DOMAIN drv.InputDerivations),
     c \in Enumerations(DOMAIN drv.Env)}

\* ParseDerivation(doc.dir, doc.name, text of doc).
Parse ==
  /\ pc = "compose"
  /\ parsed' = ParseDerivation(doc.dir, doc.name, Render(doc))
  /\ pc' = "parsed"
  /\ UNCHANGED <<doc, marshalled, reparsed, remarshalled, exported>>
  /\ UNCHANGED <<pathVars, evalVars>>

\* drv.MarshalText() on the parsed derivation.
Marshal ==
  /\ pc = "parsed" /\ parsed.err = ""
  /\ \E it \in Iterations(parsed.drv) : marshalled' = MarshalText(parsed.drv, it)
  /\ pc' = "marshalled"
  /\ UNCHANGED <<doc, parsed, reparsed, remarshalled, exported>>
  /\ UNCHANGED <<pathVars, evalVars>>

\* ParseDerivation on the marshalled text.
Reparse ==
  /\ pc = "marshalled" /\ marshalled.err = ""
  /\ reparsed' = ParseDerivation(doc.dir, doc.name, marshalled.data)
  /\ pc' = "reparsed"
  /\ UNCHANGED <<doc, parsed, marshalled, remarshalled, exported>>
  /\ UNCHANGED <<pathVars, evalVars>>

\* drv.MarshalText() on the reparsed derivation.
Remarshal ==
  /\ pc = "reparsed" /\ reparsed.err = ""
  /\ \E it \in Iterations(reparsed.drv) : remarshalled' = MarshalText(reparsed.drv, it)
  /\ pc' = "remarshalled"
  /\ UNCHANGED <<doc, parsed, marshalled, reparsed, exported>>
  /\ UNCHANGED <<pathVars, evalVars>>

\* drv.Export(nix.SHA256) on the parsed derivation.
ExportDerivation ==
  /\ pc = "parsed" /\ parsed.err = ""
  /\ \E it \in Iterations(parsed.drv) : exported' = Export(parsed.drv, it)
  /\ pc' = "exported"
  /\ UNCHANGED <<doc, parsed, marshalled, reparsed, remarshalled>>
  /\ UNCHANGED <<pathVars, evalVars>>

CodecInit ==
  /\ CodecIdle
  /\ mk = [typ |-> << >>, added |-> << >>, refs |-> NoReferences]
  /\ callA = NoCall
  /\ callB = NoCall
  /\ pathCall = NoPathCall
  /\ placeholders = << >>
  /\ EvalAtRest

CodecNext ==
  \/ \E e \in OutputEntryChoices : AddOutput(e)
  \/ \E e \in InputDerivationEntryChoices : AddInputDerivation(e)
  \/ \E src \in InputSourceChoices : AddInputSource(src)
  \/ \E arg \in ArgChoices : AddArg(arg)
  \/ \E e \in EnvEntryChoices : AddEnv(e)
  \/ \E c \in TrailingChoices : AddTrailing(c)
  \/ \E c \in ConstructorChoices : SetConstructor(c)
  \/ \E dir \in {OtherDir, << >>} : SetDir(dir)
  \/ SetName(<< >>)
  \/ Parse
  \/ Marshal
  \/ Reparse
  \/ Remarshal
  \/ ExportDerivation

StorePathInit ==
  /\ mk \in {[typ |-> t, added |-> << >>, refs |-> NoReferences] : t \in TypChoices}
  /\ callA = NoCall
  /\ callB = NoCall
  /\ pathCall = NoPathCall
  /\ placeholders = << >>
  /\ EvalAtRest
  /\ CodecIdle

\* refs.Others.Add(r).
AddRef(r) ==
  /\ ~pathCall.made /\ ~callB.made /\ placeholders = << >>
  /\ Len(mk.added) < MaxRefs
  /\ mk' = [mk EXCEPT !.added = Append(@, r), !.refs.Others = SetAdd(@, r)]
  /\ UNCHANGED <<callA, callB, pathCall, placeholders>>
  /\ UNCHANGED <<codecVars, evalVars>>

\* refs.Self = true.
SetSelf ==
  /\ ~pathCall.made /\ ~callB.made /\ placeholders = << >>
  /\ ~mk.refs.Self
  /\ mk' = [mk EXCEPT !.refs.Self = TRUE]
  /\ UNCHANGED <<callA, callB, pathCall, placeholders>>
  /\ UNCHANGED <<codecVars, evalVars>>

\* The record of makeStorePath(StoreDir, mk.typ, Hash1, NameX, mk.refs).
CallRecord ==
  [made |-> TRUE, typ |-> mk.typ, added |-> mk.added, refs |-> mk.refs,
   hashed |-> fingerprint(StoreDir, mk.typ, Hash1, NameX, mk.refs),
   result |-> makeStorePath(StoreDir, mk.typ, Hash1, NameX, mk.refs)]

\* A first call of makeStorePath; the caller then starts a new reference set.
CallMakeStorePathA ==
  /\ ~pathCall.made /\ ~callA.made /\ placeholders = << >>
  /\ callA' = CallRecord
  /\ mk' = [mk EXCEPT !.added = << >>, !.refs = NoReferences]
  /\ UNCHANGED <<callB, pathCall, placeholders>>
  /\ UNCHANGED <<codecVars, evalVars>>

\* A second call of makeStorePath.
CallMakeStorePathB ==
  /\ callA.made /\ ~callB.made
  /\ callB' = CallRecord
  /\ UNCHANGED <<mk, callA, pathCall, placeholders>>
  /\ UNCHANGED <<codecVars, evalVars>>

OutputChoices ==
  {NilOutput,
   FixedCAOutput(FlatFileContentAddress(Hash1)),
   FixedCAOutput(RecursiveFileContentAddress(Hash1)),
   FixedCAOutput(TextContentAddress(Hash2)),
   FixedCAOutput(FlatFileContentAddress(HashMD5)),
   FixedCAOutput(TextContentAddress(HashMD5)),
   FlatFileFloatingCAOutput("sha256"),
   RecursiveFileFloatingCAOutput("sha256")}

\* out.Path(store, drvName, outputName), out.IsFixed() and out.IsFloating().
CallPath(out, store, drvName, outputName) ==
  /\ ~pathCall.made /\ ~callA.made /\ mk.added = << >> /\ ~mk.refs.Self
  /\ placeholders = << >>
  /\ pathCall' = [made |-> TRUE, out |-> out, store |-> store, drvName |-> drvName,
                  outputName |-> outputName,
                  result |-> DerivationOutputPath(out, store, drvName, outputName),
                  isFixed |-> IsFixed(out), isFloating |-> IsFloating(out)]
  /\ UNCHANGED <<mk, callA, callB, placeholders>>
  /\ UNCHANGED <<codecVars, evalVars>>

\* The most calls of the placeholder functions in a run.
MaxPlaceholderCalls == 2

\* HashPlaceholder(outputName) and UnknownCAOutputPlaceholder(drvPath, outputName).
CallPlaceholders(drvPath, outputName) ==
  /\ ~pathCall.made /\ ~callA.made /\ mk.added = << >> /\ ~mk.refs.Self
  /\ Len(placeholders) < MaxPlaceholderCalls
  /\ placeholders' = Append(placeholders,
       [drvPath |-> drvPath, outputName |-> outputName,
        hash |-> HashPlaceholder(outputName),
        unknown |-> UnknownCAOutputPlaceholder(drvPath, outputName)])
  /\ UNCHANGED <<mk, callA, callB, pathCall>>
  /\ UNCHANGED <<codecVars, evalVars>>

StorePathNext ==
  \/ \E r \in RefChoices : AddRef(r)
  \/ SetSelf
  \/ CallMakeStorePathA
  \/ CallMakeStorePathB
  \/ \E out \in OutputChoices, store \in {StoreDir, OtherDir},
        drvName \in {NameX, NameHello},
        outputName \in {DefaultDerivationOutputName, OutDev, OutBin} :
       CallPath(out, store, drvName, outputName)
  \/ \E drvPath \in {DrvA, DrvB, DrvNoExt},
        outputName \in {DefaultDerivationOutputName, OutDev, OutBin} :
       CallPlaceholders(drvPath, outputName)

vars == <<mk, callA, callB, pathCall, placeholders, doc, pc, parsed, marshalled, reparsed,
          remarshalled, exported, resolve, files, disk, cache, eval, imported,
          calls, conn, tables, compared>>

SpecStorePath == StorePathInit /\ [][StorePathNext]_vars

SpecCodec == CodecInit /\ [][CodecNext]_vars

(***************************************************************************)
(* Resolving the argument of path.                                         *)
(***************************************************************************)

\* The paths handed to path, the sources of the calling chunks and the
\* working directories.
SrcRoot == <<"/", "s", "r", "c", "/", "a">>
SrcFile == SrcRoot \o <<"/", "f">>
PathChoices ==
  { SrcRoot, <<"a">>, <<".", "/", "a">>, <<".", ".", "/", "a">>, <<"a", "/">>,
    SrcRoot \o <<"/">>, <<"/", "s", "r", "c", "/", ".", "/", "a">>, <<"s", "u", "b", "/", "a">> }
NameChoices == {Nil, << >>, <<"n">>}
ArgumentChoices ==
  {StringArg(p) : p \in PathChoices}
    \cup {TableArg(p, n) : p \in PathChoices \cup {Nil}, n \in NameChoices}
    \cup {OtherArg}
DebugInfoChoices ==
  { NoDebugInfo,
    DebugInfo(<<"@", "/", "s", "r", "c", "/", "b", ".", "l", "u", "a">>),
    DebugInfo(<<"@", "b", ".", "l", "u", "a">>),
    DebugInfo(<<"=", "(", "e", "x", "p", "r", ")">>) }
WorkDir == [dir |-> <<"/", "s", "r", "c">>, err |-> ""]
WorkDirChoices == {WorkDir, [dir |-> << >>, err |-> "getwd"]}

ResolveInit ==
  /\ CodecIdle
  /\ mk = [typ |-> << >>, added |-> << >>, refs |-> NoReferences]
  /\ callA = NoCall
  /\ callB = NoCall
  /\ pathCall = NoPathCall
  /\ placeholders = << >>
  /\ ImportIdle
  /\ PipelineIdle
  /\ \E arg \in ArgumentChoices, debugInfo \in DebugInfoChoices, wd \in WorkDirChoices :
       resolve = [state |-> "called", arg |-> arg, debugInfo |-> debugInfo, wd |-> wd]

\* pathFunction, lines 24-61: the path and the name of the import.
ResolvePath ==
  /\ resolve.state = "called"
  /\ resolve' = [state |-> "resolved", arg |-> resolve.arg,
                 debugInfo |-> resolve.debugInfo, wd |-> resolve.wd,
                 abs |-> IF resolve.arg.path = Nil THEN [path |-> << >>, err |-> "nil"]
                         ELSE absSourcePath(resolve.debugInfo, resolve.wd, resolve.arg.path),
                 out |-> pathArguments(resolve.arg, resolve.debugInfo, resolve.wd)]
  /\ UNCHANGED <<pathVars, codecVars, importVars, compared, pipelineVars>>

ResolveNext == ResolvePath

SpecResolve == ResolveInit /\ [][ResolveNext]_vars

(***************************************************************************)
(* Imports of sources: the function path, step by step.                    *)
(***************************************************************************)

\* The source tree /src/a with the file f, whose time of modification and
\* data change, and the caller of path.
ModTimeChoices == {[sec |-> 100, nsec |-> 5000], [sec |-> 200, nsec |-> 5000]}
DataChoices == {<<"x">>, <<"y">>}
SourceTree(modTime, data) ==
  [n \in {SrcRoot, SrcFile} |->
     IF n = SrcRoot THEN Directory([sec |-> 50, nsec |-> 0], 2)
     ELSE RegularFile(modTime, 3, data)]
Caller == DebugInfo(<<"@", "/", "s", "r", "c", "/", "b", ".", "l", "u", "a">>)
ImportChoices ==
  { StringArg(<<"a">>), TableArg(SrcRoot, << >>),
    StringArg(<<"g", "o", "n", "e">>) }

NoImp == [state |-> "none", written |-> << >>, trailers |-> << >>]
NoResult == [err |-> "", value |-> << >>, context |-> {}]
NoCheck == [path |-> << >>, err |-> "not checked", onDisk |-> FALSE]
NoImport == [made |-> FALSE]

\* The evaluator at the start of a call.
Called(fn) ==
  [pc |-> "called", fn |-> fn, p |-> << >>, name |-> << >>,
   curr |-> [exists |-> FALSE, rows |-> {}], stamps |-> {},
   prev |-> NoImport, prevOnDisk |-> FALSE,
   check |-> NoCheck, diskAtCheck |-> {}, opened |-> 0, imp |-> NoImp,
   contents |-> << >>, context |-> << >>, refs |-> NoReferences,
   storePath |-> << >>, statted |-> {}, result |-> NoResult]

\* The return of a call: the deferred calls drop the walk relation and
\* close the import connection, which aborts the import when it is open.
Return(e, err, value) ==
  [e EXCEPT !.pc = "done",
            !.curr = [exists |-> FALSE, rows |-> {}],
            !.imp.state = IF @ = "open" THEN "aborted" ELSE @,
            !.result = [err |-> err, value |-> value,
                        context |-> IF err = "" THEN {value} ELSE {}]]

ImportInit ==
  /\ CodecIdle
  /\ mk = [typ |-> << >>, added |-> << >>, refs |-> NoReferences]
  /\ callA = NoCall
  /\ callB = NoCall
  /\ pathCall = NoPathCall
  /\ placeholders = << >>
  /\ resolve = NoResolve
  /\ files = SourceTree([sec |-> 100, nsec |-> 5000], <<"x">>)
  /\ disk = {}
  /\ cache = {}
  /\ eval = EvalIdle
  /\ imported = [n \in {} |-> NoImport]
  /\ PipelineIdle

\* The last import under a name that returned a store path.
LastImport(name) == IF name \in DOMAIN imported THEN imported[name] ELSE NoImport

\* pathFunction, lines 24-65: the arguments, the path and walkPath.
PathBegin(arg) ==
  /\ eval.pc \in {"idle", "done"}
  /\ eval' = Bind(pathArguments(arg, Caller, WorkDir), LAMBDA a :
       IF a.err # "" THEN Return(Called("path"), a.err, << >>)
       ELSE Bind(walkPath(files, a.p), LAMBDA w :
              IF w.err # ""
                THEN Return([Called("path") EXCEPT !.p = a.p, !.name = a.name],
                            w.err, << >>)
              ELSE [Called("path") EXCEPT
                      !.pc = "walked", !.p = a.p, !.name = a.name,
                      !.curr = [exists |-> TRUE, rows |-> w.rows],
                      !.stamps = stampsOf(w.rows),
                      !.prev = LastImport(a.name)]))
  /\ UNCHANGED <<files, disk, cache, imported>>
  /\ UNCHANGED <<pathVars, codecVars, resolve, compared, pipelineVars>>

\* The evaluator after a check made before the walk has filled the relation.
CheckedBeforeWalk ==
  Bind(checkStamp(find(cache, {}, eval.name), StoreDir), LAMBDA c :
    [eval EXCEPT
       !.check = [path |-> c.path, err |-> c.err,
                  onDisk |-> c.err = "" /\ c.path \in disk],
       !.statted = IF c.err = "" THEN {c.path} ELSE {},
       !.prevOnDisk = eval.prev.made /\ eval.prev.storePath \in disk])

\* The evaluator after a check that takes the path checkStamp found without
\* os.Lstat.
CheckedWithoutLstat ==
  Bind(checkStamp(find(cache, eval.curr.rows, eval.name), StoreDir), LAMBDA c :
    [eval EXCEPT
       !.check = [path |-> c.path, err |-> c.err, onDisk |-> c.err = ""],
       !.statted = {},
       !.prevOnDisk = eval.prev.made /\ eval.prev.storePath \in disk])

\* The evaluator after checkStamp and, when it found a path, os.Lstat.
Checked ==
  Bind(checkStamp(find(cache, eval.curr.rows, eval.name), StoreDir), LAMBDA c :
    [eval EXCEPT
       !.check = [path |-> c.path, err |-> c.err,
                  onDisk |-> c.err = "" /\ c.path \in disk],
       !.statted = IF c.err = "" THEN {c.path} ELSE {},
       !.prevOnDisk = eval.prev.made /\ eval.prev.storePath \in disk])

\* The imports that returned a store path, with one more.
Imported(name, p, stamps, storePath) ==
  [n \in DOMAIN imported \cup {name} |->
     IF n = name
       THEN [made |-> TRUE, p |-> p, stamps |-> stamps, storePath |-> storePath]
       ELSE imported[n]]

\* pathFunction, lines 71-78: checkStamp and os.Lstat on the path it found.
PathCheckStamp ==
  /\ eval.pc = "walked"
  /\ IF Checked.check.onDisk
       THEN /\ eval' = Return([Checked EXCEPT !.diskAtCheck = disk \cap {Checked.check.path}],
                                   "", Checked.check.path)
            /\ imported' = Imported(eval.name, eval.p, eval.stamps, Checked.check.path)
       ELSE /\ eval' = [Checked EXCEPT !.pc = "missed",
                                            !.diskAtCheck = disk \cap {Checked.check.path}]
            /\ UNCHANGED imported
  /\ UNCHANGED <<files, disk, cache>>
  /\ UNCHANGED <<pathVars, codecVars, resolve, compared, pipelineVars>>

\* pathFunction, lines 80-84: startImport, which opens a connection or fails.
PathStartImport(ok) ==
  /\ eval.pc = "missed" /\ eval.fn = "path"
  /\ eval' = IF ok THEN [eval EXCEPT !.pc = "opened", !.opened = @ + 1,
                                     !.imp.state = "open"]
             ELSE Return(eval, "startImport", << >>)
  /\ UNCHANGED <<files, disk, cache, imported>>
  /\ UNCHANGED <<pathVars, codecVars, resolve, compared, pipelineVars>>

\* pathFunction, lines 86-155: the rows of the walk are written as a NAR to
\* the hasher and the connection, and the NAR writer is closed.
PathStream ==
  /\ eval.pc = "opened" /\ eval.fn = "path"
  /\ eval' = Bind(streamWalk(eval.curr.rows, eval.p, files), LAMBDA s :
       IF s.err # "" THEN Return(eval, s.err, << >>)
       ELSE [eval EXCEPT !.pc = "streamed", !.imp.written = narBytes(s.headers)])
  /\ UNCHANGED <<files, disk, cache, imported>>
  /\ UNCHANGED <<pathVars, codecVars, resolve, compared, pipelineVars>>

\* pathFunction, lines 156-166: the store path of the hash of the NAR, and
\* the trailer.
PathTrailer(ok) ==
  /\ eval.pc = "streamed" /\ eval.fn = "path"
  /\ eval' = Bind(FixedCAOutputPath(StoreDir, eval.name,
                     RecursiveFileContentAddress(SumHash(eval.imp.written)), NoReferences),
                   LAMBDA storePath :
       IF storePath.err # "" THEN Return(eval, storePath.err, << >>)
       ELSE IF ~ok THEN Return(eval, "trailer", << >>)
       ELSE [eval EXCEPT
               !.pc = "trailed", !.storePath = storePath.path,
               !.imp.trailers = Append(@, [storePath |-> storePath.path,
                                           references |-> << >>])])
  /\ UNCHANGED <<files, disk, cache, imported>>
  /\ UNCHANGED <<pathVars, codecVars, resolve, compared, pipelineVars>>

\* pathFunction, lines 167-169: the connection is closed; the store has
\* the object when the close succeeds.
PathClose(ok) ==
  /\ eval.pc = "trailed" /\ eval.fn = "path"
  /\ IF ok
       THEN /\ eval' = [eval EXCEPT !.pc = "closed", !.imp.state = "closed"]
            /\ disk' = disk \cup {eval.storePath}
       ELSE /\ eval' = Return([eval EXCEPT !.imp.state = "failed"], "close", << >>)
            /\ UNCHANGED disk
  /\ UNCHANGED <<files, cache, imported>>
  /\ UNCHANGED <<pathVars, codecVars, resolve, compared, pipelineVars>>

\* pathFunction, lines 171-185: updateCache in a transaction, and the
\* store path is returned.
PathUpdateCache(ok) ==
  /\ eval.pc = "closed" /\ eval.fn = "path"
  /\ IF ok
       THEN /\ cache' = updateCache(cache, eval.curr.rows, eval.storePath, disk)
            /\ eval' = Return(eval, "", eval.storePath)
            /\ imported' = Imported(eval.name, eval.p, eval.stamps, eval.storePath)
       ELSE /\ eval' = Return(eval, "updating cache", << >>)
            /\ UNCHANGED <<cache, imported>>
  /\ UNCHANGED <<files, disk>>
  /\ UNCHANGED <<pathVars, codecVars, resolve, compared, pipelineVars>>

\* The file f is touched: its time of modification changes.
Touch(modTime) ==
  /\ eval.pc \in {"idle", "done"}
  /\ files[SrcFile].ModTime # modTime
  /\ files' = [files EXCEPT ![SrcFile].ModTime = modTime]
  /\ UNCHANGED <<disk, cache, eval, imported>>
  /\ UNCHANGED <<pathVars, codecVars, resolve, compared, pipelineVars>>

\* The file f is rewritten in place with data of the same size, and the
\* time of modification is set back to what it was.
Rewrite(data) ==
  /\ eval.pc \in {"idle", "done"}
  /\ files[SrcFile].data # data
  /\ files' = [files EXCEPT ![SrcFile].data = data]
  /\ UNCHANGED <<disk, cache, eval, imported>>
  /\ UNCHANGED <<pathVars, codecVars, resolve, compared, pipelineVars>>

\* The store deletes an object (garbage collection), at any time.
StoreDelete(s) ==
  /\ s \in disk
  /\ disk' = disk \ {s}
  /\ UNCHANGED <<files, cache, eval, imported>>
  /\ UNCHANGED <<pathVars, codecVars, resolve, compared, pipelineVars>>

\* Another client of the store imports an object the cache knows, at any
\* time.
StoreAdd(s) ==
  /\ s \notin disk
  /\ disk' = disk \cup {s}
  /\ UNCHANGED <<files, cache, eval, imported>>
  /\ UNCHANGED <<pathVars, codecVars, resolve, compared, pipelineVars>>

ImportNext ==
  \/ \E arg \in ImportChoices : PathBegin(arg)
  \/ PathCheckStamp
  \/ \E ok \in BOOLEAN : PathStartImport(ok)
  \/ PathStream
  \/ \E ok \in BOOLEAN : PathTrailer(ok)
  \/ \E ok \in BOOLEAN : PathClose(ok)
  \/ \E ok \in BOOLEAN : PathUpdateCache(ok)
  \/ \E modTime \in ModTimeChoices : Touch(modTime)
  \/ \E data \in DataChoices : Rewrite(data)
  \/ \E s \in disk : StoreDelete(s)
  \/ \E s \in {m.path : m \in cache} : StoreAdd(s)

SpecImport == ImportInit /\ [][ImportNext]_vars

(***************************************************************************)
(* Imports of texts: the function toFile, step by step.                    *)
(***************************************************************************)

\* The arguments of toFile: a name, the contents and the string context of
\* the contents, in the order lua.State.StringContext gives it.
OutputOfDrvA == <<"!", "o", "u", "t", "!">> \o DrvA
ContextChoices ==
  { << >>, <<SrcA, SrcB>>, <<SrcB, SrcA>>, <<OutputOfDrvA>>, <<SrcA, OutputOfDrvA>> }
ToFileChoices ==
  {[name |-> <<"t">>, s |-> <<"h", "i">>, context |-> c] : c \in ContextChoices}
    \cup {[name |-> <<"t">>, s |-> <<"h", "o", "\n">>, context |-> << >>],
          [name |-> Nil, s |-> <<"h", "i">>, context |-> << >>],
          [name |-> <<"t">>, s |-> Nil, context |-> << >>]}

\* toFileFunction, lines 200-205, on the first entry of the context only.
toFileReferencesOfFirst(context) ==
  IF context # << >> /\ HasPrefix(context[1], <<"!">>)
    THEN [refs |-> NoReferences, err |-> "cannot depend on derivation outputs"]
  ELSE [refs |-> [NoReferences EXCEPT
                    !.Others = SetAddAll(<< >>, SelectSeq(context,
                                 LAMBDA dep : ~HasPrefix(dep, <<"!">>)))],
        err |-> ""]

\* toFileFunction, lines 199-205: the references from the string context.
toFileReferences(context) ==
  IF \E i \in 1..Len(context) : HasPrefix(context[i], <<"!">>)
    THEN [refs |-> NoReferences, err |-> "cannot depend on derivation outputs"]
  ELSE [refs |-> [NoReferences EXCEPT !.Others = SetAddAll(<< >>, context)], err |-> ""]

\* The trailer of a toFile import without the references.
toFileTrailerWithoutReferences(storePath, refs) ==
  [storePath |-> storePath, references |-> << >>]

\* toFileFunction, lines 228-231: the trailer.
toFileTrailer(storePath, refs) ==
  [storePath |-> storePath, references |-> refs.Others]

\* toFileFunction, lines 188-217: the arguments, the references, the store
\* path and os.Lstat on it.
toFileBegin(name, s, context) ==
  LET called == [Called("toFile") EXCEPT !.context = context]
  IN IF name = Nil \/ s = Nil THEN Return(called, "string expected", << >>)
     ELSE Bind(toFileReferences(context), LAMBDA r :
       IF r.err # ""
         THEN Return([called EXCEPT !.name = name, !.contents = s], r.err, << >>)
       ELSE Bind(FixedCAOutputPath(StoreDir, name, TextContentAddress(SumHash(s)), r.refs),
                 LAMBDA storePath :
         Bind([called EXCEPT !.name = name, !.contents = s, !.refs = r.refs,
                             !.storePath = storePath.path,
                             !.statted = IF storePath.err = "" THEN {storePath.path} ELSE {},
                             !.diskAtCheck = disk \cap {storePath.path}],
              LAMBDA computed :
           IF storePath.err # "" THEN Return(computed, storePath.err, << >>)
           ELSE IF storePath.path \in disk THEN Return(computed, "", storePath.path)
           ELSE [computed EXCEPT !.pc = "missed"])))

ToFileInit ==
  /\ CodecIdle
  /\ mk = [typ |-> << >>, added |-> << >>, refs |-> NoReferences]
  /\ callA = NoCall
  /\ callB = NoCall
  /\ pathCall = NoPathCall
  /\ placeholders = << >>
  /\ resolve = NoResolve
  /\ files = [n \in {} |-> 0]
  /\ disk = {}
  /\ cache = {}
  /\ eval = EvalIdle
  /\ imported = [n \in {} |-> NoImport]
  /\ PipelineIdle

\* toFileFunction, lines 188-217.
ToFileBegin(name, s, context) ==
  /\ eval.pc \in {"idle", "done"}
  /\ eval' = toFileBegin(name, s, context)
  /\ UNCHANGED <<files, disk, cache, imported>>
  /\ UNCHANGED <<pathVars, codecVars, resolve, compared, pipelineVars>>

\* toFileFunction, lines 219-223: startImport.
ToFileStartImport(ok) ==
  /\ eval.pc = "missed" /\ eval.fn = "toFile"
  /\ eval' = IF ok THEN [eval EXCEPT !.pc = "opened", !.opened = @ + 1,
                                     !.imp.state = "open"]
             ELSE Return(eval, "startImport", << >>)
  /\ UNCHANGED <<files, disk, cache, imported>>
  /\ UNCHANGED <<pathVars, codecVars, resolve, compared, pipelineVars>>

\* toFileFunction, lines 224-227: writeSingleFileNAR on the connection.
ToFileWrite(ok) ==
  /\ eval.pc = "opened" /\ eval.fn = "toFile"
  /\ eval' = IF ok THEN [eval EXCEPT !.pc = "streamed",
                                     !.imp.written = writeSingleFileNAR(eval.contents)]
             ELSE Return(eval, "write", << >>)
  /\ UNCHANGED <<files, disk, cache, imported>>
  /\ UNCHANGED <<pathVars, codecVars, resolve, compared, pipelineVars>>

\* toFileFunction, lines 228-234: the trailer.
ToFileTrailer(ok) ==
  /\ eval.pc = "streamed" /\ eval.fn = "toFile"
  /\ eval' = IF ok THEN [eval EXCEPT
                           !.pc = "trailed",
                           !.imp.trailers = Append(@, toFileTrailer(eval.storePath, eval.refs))]
             ELSE Return(eval, "trailer", << >>)
  /\ UNCHANGED <<files, disk, cache, imported>>
  /\ UNCHANGED <<pathVars, codecVars, resolve, compared, pipelineVars>>

\* toFileFunction, lines 235-241: the connection is closed and the store
\* path returned; the store has the object when the close succeeds.
ToFileClose(ok) ==
  /\ eval.pc = "trailed" /\ eval.fn = "toFile"
  /\ IF ok
       THEN /\ eval' = Return([eval EXCEPT !.imp.state = "closed"], "", eval.storePath)
            /\ disk' = disk \cup {eval.storePath}
       ELSE /\ eval' = Return([eval EXCEPT !.imp.state = "failed"], "close", << >>)
            /\ UNCHANGED disk
  /\ UNCHANGED <<files, cache, imported>>
  /\ UNCHANGED <<pathVars, codecVars, resolve, compared, pipelineVars>>

ToFileNext ==
  \/ \E arg \in ToFileChoices : ToFileBegin(arg.name, arg.s, arg.context)
  \/ \E ok \in BOOLEAN : ToFileStartImport(ok)
  \/ \E ok \in BOOLEAN : ToFileWrite(ok)
  \/ \E ok \in BOOLEAN : ToFileTrailer(ok)
  \/ \E ok \in BOOLEAN : ToFileClose(ok)
  \/ \E s \in disk : StoreDelete(s)
  \/ \E s \in {e.storePath : e \in {x \in {eval} : x.pc # "idle"}} \ {<< >>} :
       StoreAdd(s)

SpecToFile == ToFileInit /\ [][ToFileNext]_vars

(***************************************************************************)
(* Imports of sources: the function path, statement by statement, on the   *)
(* cache connection of the evaluator.                                      *)
(***************************************************************************)

\* sqlitex.Save, and the function sqlitex.ImmediateTransaction returns: what
\* was done since is kept when err is nil and rolled back otherwise.
SaveWithoutRollback(before, after, err) == after

Save(before, after, err) == IF err # "" THEN before ELSE after

\* walk/create.sql on a connection that has the relation already: the
\* statement fails, or (create if not exists) the relation is kept and
\* walk/insert.sql replaces the rows of the paths it inserts.
createdCurr(curr, rows, replace) ==
  IF ~curr.exists THEN [curr |-> [exists |-> TRUE, rows |-> rows], err |-> ""]
  ELSE IF ~replace THEN [curr |-> curr, err |-> "walk: create temp table"]
  ELSE [curr |-> [exists |-> TRUE,
                  rows |-> {r \in curr.rows : \A n \in rows : n.path # r.path} \cup rows],
        err |-> ""]

\* walkPath on the connection: os.Lstat on the root, the savepoint, the
\* relation "curr" and its rows.  With fault, an entry of the walk cannot be
\* read (entry.Info, os.Readlink) after the root has been inserted.
walkPathOn(curr, fsys, path, fault, replace) ==
  IF ~Exists(fsys, path) THEN [curr |-> curr, err |-> "walk: lstat"]
  ELSE Bind(walkPath(fsys, path), LAMBDA w :
    Bind(createdCurr(curr, IF fault THEN {walkRow(path, Lstat(fsys, path))} ELSE w.rows,
                 replace),
         LAMBDA c :
      Bind(IF c.err # "" THEN c.err ELSE IF fault THEN "walk: info" ELSE "", LAMBDA err :
        [curr |-> Save(curr, c.curr, err), err |-> err])))

\* The statements of updateCache, in their order.
updateCacheStatements == <<"invalidate", "upsert_store_object", "new_mapping", "copy_walk">>

\* An updateCache that inserts the mapping before the row of its object.
updateCacheStatementMappingFirst(k, t, rows, storePath, onDisk) ==
  CASE k = 1 -> [t EXCEPT !.mappings = invalidate(@, rows, onDisk)]
    [] k = 3 -> [t EXCEPT !.objects = @ \cup {storePath}]
    [] k = 2 -> [t EXCEPT !.mappings = @ \cup {[path |-> storePath, stamps |-> {}]}]
    [] k = 4 -> [t EXCEPT !.mappings =
                   (@ \ {[path |-> storePath, stamps |-> {}]})
                     \cup {[path |-> storePath, stamps |-> stampsOf(rows)]}]

\* The k-th statement of updateCache on the tables t.
updateCacheStatement(k, t, rows, storePath, onDisk) ==
  CASE k = 1 -> [t EXCEPT !.mappings = invalidate(@, rows, onDisk)]
    [] k = 2 -> [t EXCEPT !.objects = @ \cup {storePath}]
    [] k = 3 -> [t EXCEPT !.mappings = @ \cup {[path |-> storePath, stamps |-> {}]}]
    [] k = 4 -> [t EXCEPT !.mappings =
                   (@ \ {[path |-> storePath, stamps |-> {}]})
                     \cup {[path |-> storePath, stamps |-> stampsOf(rows)]}]

\* A goroutine that has not called path, and a call of path at its start.
\* deferred holds the deferred calls: "drop" (walk/drop.sql) and "close"
\* (imp.Close); before holds the tables of the cache database at the call
\* and statements the statements of updateCache that succeeded.
IdleCall == [pc |-> "idle", made |-> 0]
NewCall(arg) ==
  [pc |-> "called", made |-> 1, arg |-> arg, p |-> << >>, name |-> << >>, deferred |-> {},
   walked |-> {}, check |-> NoCheck, opened |-> 0, imp |-> NoImp, hashed |-> << >>,
   storePath |-> << >>, before |-> NoTables, statements |-> << >>, result |-> NoResult]

\* The return of pathFunction: the deferred imp.Close aborts an import that
\* is open, and the deferred walk/drop.sql drops the relation.
Returned(c, err, value) ==
  [c EXCEPT !.pc = "done",
            !.imp.state = IF "close" \in c.deferred /\ @ = "open" THEN "aborted" ELSE @,
            !.result = [err |-> err, value |-> value,
                        context |-> IF err = "" THEN {value} ELSE {}]]
Dropped(c, curr) == IF "drop" \in c.deferred THEN NoCurr ELSE curr

\* The tables a statement on the connection reads: those of the open
\* transaction, if any.
View == IF conn.tx.open THEN conn.tx.pending ELSE tables

\* The bytes of a NAR that has not been closed.
narBytesOpen(headers) ==
  SubSeq(narBytes(headers), 1, Len(narBytes(headers)) - Len(narString(<<")">>)))

\* The most calls of path a goroutine makes in a run.
MaxPathCalls == 2

\* pathFunction, lines 23-69: the arguments, walkPath, and the deferred drop.
walkedCall(arg, curr, fsys, fault, replace) ==
  Bind(pathArguments(arg, Caller, WorkDir), LAMBDA a :
    IF a.err # "" THEN [call |-> Returned(NewCall(arg), a.err, << >>), curr |-> curr]
    ELSE Bind(walkPathOn(curr, fsys, a.p, fault, replace), LAMBDA w :
      IF w.err # ""
        THEN [call |-> Returned([NewCall(arg) EXCEPT !.p = a.p, !.name = a.name],
                                w.err, << >>),
              curr |-> w.curr]
      ELSE [call |-> [NewCall(arg) EXCEPT
                        !.pc = "walked", !.p = a.p, !.name = a.name,
                        !.deferred = {"drop"}, !.walked = walkPath(fsys, a.p).rows],
            curr |-> w.curr]))

Walk(g, arg, fault, replace) ==
  /\ calls[g].pc \in {"idle", "done"}
  /\ calls[g].made < MaxPathCalls
  /\ \E o \in {walkedCall(arg, conn.curr, files, fault, replace)} :
       /\ calls' = [calls EXCEPT ![g] = [o.call EXCEPT !.made = calls[g].made + 1, !.before = tables]]
       /\ conn' = [conn EXCEPT !.curr = o.curr]
  /\ UNCHANGED <<tables, files, disk>>
  /\ UNCHANGED <<pathVars, codecVars, resolve, compared, cache, eval, imported>>

\* checkStamp on the connection: find.sql reads the relation "curr".
checkedCall(c, curr, t, onDisk) ==
  IF ~curr.exists
    THEN [c EXCEPT !.check = [path |-> << >>, err |-> "find match: no such table",
                              onDisk |-> FALSE]]
  ELSE Bind(checkStamp(find(t.mappings, curr.rows, c.name), StoreDir), LAMBDA f :
         [c EXCEPT !.check = [path |-> f.path, err |-> f.err,
                              onDisk |-> f.err = "" /\ f.path \in onDisk]])

\* pathFunction, lines 71-78: checkStamp and os.Lstat on the path it found.
Check(g) ==
  /\ calls[g].pc = "walked"
  /\ \E c \in {checkedCall(calls[g], conn.curr, View, disk)} :
       IF c.check.onDisk
         THEN /\ calls' = [calls EXCEPT ![g] = Returned(c, "", c.check.path)]
              /\ conn' = [conn EXCEPT !.curr = Dropped(c, @)]
         ELSE /\ calls' = [calls EXCEPT ![g] = [c EXCEPT !.pc = "missed"]]
              /\ UNCHANGED conn
  /\ UNCHANGED <<tables, files, disk>>
  /\ UNCHANGED <<pathVars, codecVars, resolve, compared, cache, eval, imported>>

\* pathFunction, lines 80-84: startImport and the deferred imp.Close.
StartImport(g, ok) ==
  /\ calls[g].pc = "missed"
  /\ IF ok
       THEN /\ calls' = [calls EXCEPT ![g] =
                 [@ EXCEPT !.pc = "opened", !.opened = @ + 1, !.imp.state = "open",
                           !.deferred = @ \cup {"close"}]]
            /\ UNCHANGED conn
       ELSE /\ calls' = [calls EXCEPT ![g] = Returned(@, "startImport", << >>)]
            /\ conn' = [conn EXCEPT !.curr = Dropped(calls[g], @)]
  /\ UNCHANGED <<tables, files, disk>>
  /\ UNCHANGED <<pathVars, codecVars, resolve, compared, cache, eval, imported>>

\* pathFunction, lines 86-155: walk/iterate.sql with the header and the data
\* of every row written to the hasher and the connection, and w.Close.  The
\* fault "write" is a connection that takes no byte, the fault "close" a NAR
\* writer that fails to close.
streamedCall(c, curr, fsys, fault) ==
  IF ~curr.exists THEN Returned(c, "iterate: no such table", << >>)
  ELSE IF fault = "write"
    THEN Returned([c EXCEPT !.hashed = narBytesOpen(<< >>)], "write", << >>)
  ELSE Bind(streamWalk(curr.rows, c.p, fsys), LAMBDA s :
    IF s.err # ""
      THEN Returned([c EXCEPT !.hashed = narBytesOpen(s.headers),
                              !.imp.written = narBytesOpen(s.headers)], s.err, << >>)
    ELSE IF fault = "close"
      THEN Returned([c EXCEPT !.hashed = narBytesOpen(s.headers),
                              !.imp.written = narBytesOpen(s.headers)], "close", << >>)
    ELSE [c EXCEPT !.pc = "streamed", !.hashed = narBytes(s.headers),
                   !.imp.written = narBytes(s.headers)])

Stream(g, fault) ==
  /\ calls[g].pc = "opened"
  /\ \E c \in {streamedCall(calls[g], conn.curr, files, fault)} :
       /\ calls' = [calls EXCEPT ![g] = c]
       /\ conn' = IF c.pc = "done" THEN [conn EXCEPT !.curr = Dropped(c, @)] ELSE conn
  /\ UNCHANGED <<tables, files, disk>>
  /\ UNCHANGED <<pathVars, codecVars, resolve, compared, cache, eval, imported>>

\* The trailer of a path import with references.
pathTrailerWithSelf(storePath) ==
  [storePath |-> storePath, references |-> <<storePath>>]

\* pathFunction, lines 161-163: the trailer.
pathTrailer(storePath) == [storePath |-> storePath, references |-> << >>]

\* A pathFunction that goes from the trailer to the transaction and leaves
\* imp.Close to the deferred call.
trailedCallWithoutClose(c, ok) ==
  Bind(FixedCAOutputPath(StoreDir, c.name,
                         RecursiveFileContentAddress(SumHash(c.hashed)), NoReferences),
       LAMBDA storePath :
    IF storePath.err # "" THEN Returned(c, storePath.err, << >>)
    ELSE IF ~ok THEN Returned([c EXCEPT !.storePath = storePath.path], "trailer", << >>)
    ELSE [c EXCEPT !.pc = "closed", !.storePath = storePath.path,
                   !.imp.trailers = Append(@, pathTrailer(storePath.path))])

\* pathFunction, lines 156-166: the store path of the hash, and the trailer.
trailedCall(c, ok) ==
  Bind(FixedCAOutputPath(StoreDir, c.name,
                         RecursiveFileContentAddress(SumHash(c.hashed)), NoReferences),
       LAMBDA storePath :
    IF storePath.err # "" THEN Returned(c, storePath.err, << >>)
    ELSE IF ~ok THEN Returned([c EXCEPT !.storePath = storePath.path], "trailer", << >>)
    ELSE [c EXCEPT !.pc = "trailed", !.storePath = storePath.path,
                   !.imp.trailers = Append(@, pathTrailer(storePath.path))])

Trailer(g, ok) ==
  /\ calls[g].pc = "streamed"
  /\ \E c \in {trailedCall(calls[g], ok)} :
       /\ calls' = [calls EXCEPT ![g] = c]
       /\ conn' = IF c.pc = "done" THEN [conn EXCEPT !.curr = Dropped(c, @)] ELSE conn
  /\ UNCHANGED <<tables, files, disk>>
  /\ UNCHANGED <<pathVars, codecVars, resolve, compared, cache, eval, imported>>

\* A call that goes on after imp.Close whatever it returned.
closedCallWhatever(c, ok) ==
  [c EXCEPT !.pc = "closed", !.imp.state = IF ok THEN "closed" ELSE "failed"]

\* pathFunction, lines 167-169: imp.Close and the return of its error.
closedCall(c, ok) ==
  IF ok THEN [c EXCEPT !.pc = "closed", !.imp.state = "closed"]
  ELSE Returned([c EXCEPT !.imp.state = "failed"], "close", << >>)

\* pathFunction, lines 167-169: imp.Close; the store has the object when the
\* close succeeds.
CloseImport(g, ok) ==
  /\ calls[g].pc = "trailed"
  /\ \E c \in {closedCall(calls[g], ok)} :
       /\ calls' = [calls EXCEPT ![g] = c]
       /\ conn' = IF c.pc = "done" THEN [conn EXCEPT !.curr = Dropped(c, @)] ELSE conn
  /\ disk' = IF ok THEN disk \cup {calls[g].storePath} ELSE disk
  /\ UNCHANGED <<tables, files>>
  /\ UNCHANGED <<pathVars, codecVars, resolve, compared, cache, eval, imported>>

\* pathFunction, lines 171-176: sqlitex.ImmediateTransaction, which fails
\* when the connection is in a transaction or the database is locked.
ImmediateTransaction(g, ok) ==
  /\ calls[g].pc = "closed"
  /\ IF ok /\ ~conn.tx.open
       THEN /\ calls' = [calls EXCEPT ![g] = [@ EXCEPT !.pc = "transaction"]]
            /\ conn' = [conn EXCEPT !.tx = [open |-> TRUE, owner |-> g, pending |-> tables,
                                            steps |-> << >>]]
       ELSE /\ calls' = [calls EXCEPT ![g] =
                 Returned(@, "updating cache", << >>)]
            /\ conn' = [conn EXCEPT !.curr = Dropped(calls[g], @)]
  /\ UNCHANGED <<tables, files, disk>>
  /\ UNCHANGED <<pathVars, codecVars, resolve, compared, cache, eval, imported>>

\* updateCache, lines 398-439, one statement: on an error the savepoint and
\* the transaction are rolled back and pathFunction returns the error.
UpdateCache(g, ok) ==
  /\ calls[g].pc = "transaction" /\ conn.tx.open /\ conn.tx.owner = g
  /\ Len(conn.tx.steps) < Len(updateCacheStatements)
  /\ \E k \in {Len(conn.tx.steps) + 1} :
       IF ok /\ (k \in {1, 4} => conn.curr.exists)
         THEN /\ conn' = [conn EXCEPT
                   !.tx.pending = updateCacheStatement(k, @, conn.curr.rows,
                                                       calls[g].storePath, disk),
                   !.tx.steps = Append(@, updateCacheStatements[k])]
              /\ UNCHANGED <<calls, tables>>
         ELSE /\ tables' = Save(tables, conn.tx.pending, "update cache")
              /\ conn' = [conn EXCEPT !.tx = NoTransaction, !.curr = Dropped(calls[g], @)]
              /\ calls' = [calls EXCEPT ![g] =
                   Returned([@ EXCEPT !.statements = conn.tx.steps], "updating cache", << >>)]
  /\ UNCHANGED <<files, disk>>
  /\ UNCHANGED <<pathVars, codecVars, resolve, compared, cache, eval, imported>>

\* pathFunction, lines 176-185: the transaction ends (commit, or rollback
\* when the commit fails) and the store path is returned.
EndTransaction(g, ok) ==
  /\ calls[g].pc = "transaction" /\ conn.tx.open /\ conn.tx.owner = g
  /\ Len(conn.tx.steps) = Len(updateCacheStatements)
  /\ tables' = Save(tables, conn.tx.pending, IF ok THEN "" ELSE "commit")
  /\ conn' = [conn EXCEPT !.tx = NoTransaction, !.curr = Dropped(calls[g], @)]
  /\ calls' = [calls EXCEPT ![g] =
       IF ok THEN Returned([@ EXCEPT !.statements = conn.tx.steps], "", @.storePath)
       ELSE Returned([@ EXCEPT !.statements = conn.tx.steps], "updating cache", << >>)]
  /\ UNCHANGED <<files, disk>>
  /\ UNCHANGED <<pathVars, codecVars, resolve, compared, cache, eval, imported>>

\* The source tree of the detailed imports: the directory /src/a with the
\* directory d and its file c, the file d-x (made before c: its inode is
\* smaller) and the symlink l to d; and the symlink /src/l to a.
SrcD == SrcRoot \o <<"/", "d">>
SrcDC == SrcD \o <<"/", "c">>
SrcDX == SrcRoot \o <<"/", "d", "-", "x">>
SrcL == SrcRoot \o <<"/", "l">>
SrcLink == <<"/", "s", "r", "c", "/", "l">>
PipelineTree(data) ==
  [n \in {SrcRoot, SrcD, SrcDC, SrcDX, SrcL, SrcLink} |->
     IF n \in {SrcRoot, SrcD} THEN Directory([sec |-> 50, nsec |-> 0], IF n = SrcRoot THEN 2 ELSE 6)
     ELSE IF n = SrcDC THEN RegularFile([sec |-> 100, nsec |-> 5000], 7, data)
     ELSE IF n = SrcDX THEN RegularFile([sec |-> 90, nsec |-> 0], 4, <<"y">>)
     ELSE IF n = SrcL THEN Symlink([sec |-> 95, nsec |-> 0], 8, <<"d">>)
     ELSE Symlink([sec |-> 96, nsec |-> 0], 9, <<"a">>)]

\* The arguments of path: the directory by a relative path and by an
\* absolute path with a trailing separator, the symlink, the file c, and a
\* path that does not exist.
PipelineChoices ==
  { StringArg(<<"a">>), TableArg(SrcRoot \o <<"/">>, << >>), StringArg(<<"l">>),
    StringArg(<<"a", "/", "d", "/", "c">>), StringArg(<<"g", "o", "n", "e">>) }
SizeChoices == {<<"x">>, <<"x", "x">>}

\* The file c is written while an import may be in progress: its size
\* changes.
Resize(data) ==
  /\ files[SrcDC].data # data
  /\ files' = [files EXCEPT ![SrcDC].data = data, ![SrcDC].Size = Len(data)]
  /\ UNCHANGED <<disk, cache, eval, imported, pipelineVars>>
  /\ UNCHANGED <<pathVars, codecVars, resolve, compared>>

PipelineInit ==
  /\ CodecIdle
  /\ mk = [typ |-> << >>, added |-> << >>, refs |-> NoReferences]
  /\ callA = NoCall
  /\ callB = NoCall
  /\ pathCall = NoPathCall
  /\ placeholders = << >>
  /\ resolve = NoResolve
  /\ files = PipelineTree(<<"x">>)
  /\ disk = {}
  /\ cache = {}
  /\ eval = EvalIdle
  /\ imported = [n \in {} |-> NoImport]
  /\ calls = [g \in {1} |-> IdleCall]
  /\ conn = NoConn
  /\ tables = NoTables
  /\ compared = NoCompare

PipelineNext ==
  \/ \E arg \in PipelineChoices, fault \in BOOLEAN : Walk(1, arg, fault, FALSE)
  \/ Check(1)
  \/ \E ok \in BOOLEAN : StartImport(1, ok)
  \/ \E fault \in {"", "write", "close"} : Stream(1, fault)
  \/ \E ok \in BOOLEAN : Trailer(1, ok)
  \/ \E ok \in BOOLEAN : CloseImport(1, ok)
  \/ \E ok \in BOOLEAN : ImmediateTransaction(1, ok)
  \/ \E ok \in BOOLEAN : UpdateCache(1, ok)
  \/ \E ok \in BOOLEAN : EndTransaction(1, ok)
  \/ \E data \in SizeChoices : Resize(data)
  \/ \E s \in disk : StoreDelete(s)

SpecPipeline == PipelineInit /\ [][PipelineNext]_vars

(***************************************************************************)
(* Two calls of path on one evaluator at the same time.                    *)
(***************************************************************************)

\* Two goroutines call path("a") once each on the evaluator, whose cache
\* connection they share; the source does not change, the store keeps its
\* objects and no statement fails for a reason outside the two calls.
\* walk/create.sql may fail on the relation of the other call or keep it.
Goroutines == {1, 2}

ConcurrentInit ==
  /\ CodecIdle
  /\ mk = [typ |-> << >>, added |-> << >>, refs |-> NoReferences]
  /\ callA = NoCall
  /\ callB = NoCall
  /\ pathCall = NoPathCall
  /\ placeholders = << >>
  /\ resolve = NoResolve
  /\ files = SourceTree([sec |-> 100, nsec |-> 5000], <<"x">>)
  /\ disk = {}
  /\ cache = {}
  /\ eval = EvalIdle
  /\ imported = [n \in {} |-> NoImport]
  /\ calls = [g \in Goroutines |-> IdleCall]
  /\ conn = NoConn
  /\ tables = NoTables
  /\ compared = NoCompare

ConcurrentNext ==
  \E g \in Goroutines :
    \/ calls[g].pc = "idle" /\ \E replace \in BOOLEAN : Walk(g, StringArg(<<"a">>), FALSE, replace)
    \/ Check(g)
    \/ StartImport(g, TRUE)
    \/ Stream(g, "")
    \/ Trailer(g, TRUE)
    \/ CloseImport(g, TRUE)
    \/ ImmediateTransaction(g, TRUE)
    \/ UpdateCache(g, TRUE)
    \/ EndTransaction(g, TRUE)

SpecConcurrent == ConcurrentInit /\ [][ConcurrentNext]_vars


(***************************************************************************)
(* The order of paths: collatePath and the iteration of a walk.            *)
(***************************************************************************)

\* The paths compared: a directory, what is in it, and names that begin
\* like it with a byte below or above the separator; some are not clean.
CollateChoices ==
  { <<"/">>, <<"/", "d">>, <<"/", "d", "/">>, <<"/", "d", "/", "c">>,
    <<"/", "d", "/", "/", "c">>, <<"/", "d", "/", "c", "/", "e">>,
    <<"/", "d", "-", "x">>, <<"/", "d", ".", "x">>, <<"/", "d", "x">>,
    <<"/", "d", "/", "z">>, <<"/", "D">>, <<"/", "e">>, <<"d", "/", "c">> }

CollateInit ==
  /\ CodecIdle
  /\ mk = [typ |-> << >>, added |-> << >>, refs |-> NoReferences]
  /\ callA = NoCall
  /\ callB = NoCall
  /\ pathCall = NoPathCall
  /\ placeholders = << >>
  /\ resolve = NoResolve
  /\ ImportIdle
  /\ calls = [g \in {} |-> 0]
  /\ conn = NoConn
  /\ tables = NoTables
  /\ \E a, b, c \in CollateChoices : compared = [state |-> "given", a |-> a, b |-> b, c |-> c]

\* collatePath on every pair of the three paths, and walk/iterate.sql on a
\* relation that holds the three paths, cleaned, as a walk does.
Collate ==
  /\ compared.state = "given"
  /\ compared' =
       [state |-> "compared", a |-> compared.a, b |-> compared.b, c |-> compared.c,
        ab |-> collatePath(compared.a, compared.b),
        ba |-> collatePath(compared.b, compared.a),
        bc |-> collatePath(compared.b, compared.c),
        ac |-> collatePath(compared.a, compared.c),
        order |-> Bind(iterate({[path |-> Clean(q)] : q \in {compared.a, compared.b, compared.c}}),
                       LAMBDA rows : [i \in 1..Len(rows) |-> rows[i].path])]
  /\ UNCHANGED <<pathVars, codecVars, resolve, importVars, pipelineVars>>

CollateNext == Collate

SpecCollate == CollateInit /\ [][CollateNext]_vars

(***************************************************************************)
(* Properties of store path computations.                                  *)
(***************************************************************************)

\* The elements of a finite set of strings in ascending order.
Ascending(S) ==
  CHOOSE q \in Enumerations(S) : \A i \in 1..(Len(q) - 1) : StrLess(q[i], q[i + 1])

Contains(s, sub) ==
  \E i \in 1..(Len(s) - Len(sub) + 1) : SubSeq(s, i, i + Len(sub) - 1) = sub

\* C2: makeStorePath returns the same store path whatever order the
\* references were added to refs.Others, and two invocations on equal
\* inputs (the reference sets compared as sets) return identical paths.
C2_OrderIndependence ==
  (/\ callA.made /\ callB.made
   /\ callA.typ = callB.typ
   /\ Range(callA.added) = Range(callB.added)
   /\ callA.refs.Self = callB.refs.Self)
  => callA.result = callB.result

\* Two calls whose references were added in different orders.
C2_Witness ==
  /\ callA.made /\ callB.made
  /\ Len(callA.added) = 2 /\ callA.added[1] # callA.added[2]
  /\ callB.added = <<callA.added[2], callA.added[1]>>
  /\ callA.refs.Self = callB.refs.Self
  /\ callA.result.err = "" /\ callA.result.path # << >>
  /\ callA.result = callB.result

\* The fingerprint the claim describes for a call.
ExpectedFingerprint(c) ==
  LET sorted == Ascending(Range(c.added)) IN
  c.typ
    \o Concat([i \in 1..Len(sorted) |-> <<":">> \o sorted[i]])
    \o (IF c.refs.Self THEN <<":", "s", "e", "l", "f">> ELSE << >>)
    \o <<":">> \o HashTypeString(Hash1.type) \o <<":">> \o HexEncode(Hash1.bits)
    \o <<":">> \o StoreDir
    \o <<":">> \o NameX

FingerprintAsClaimed(c) ==
  c.made =>
    /\ c.hashed = ExpectedFingerprint(c)
    /\ c.result.err = ""
    /\ PathDir(c.result.path) = StoreDir
    /\ PathName(c.result.path) = NameX
    /\ PathDigest(c.result.path)
         = Base32Encode(CompressHash(20, SHA256Bytes(ExpectedFingerprint(c))))
    /\ ~Contains(c.hashed, c.result.path)

\* C3: the fingerprint makeStorePath hashes is typ, then ":" and each
\* reference in ascending order, then ":self" iff refs.Self (after the other
\* references), then ":" hash in base 16, ":" dir, ":" name and no more;
\* toggling refs.Self changes the fingerprint, and the own path of the
\* object is not part of its fingerprint.
C3_Fingerprint ==
  /\ FingerprintAsClaimed(callA)
  /\ FingerprintAsClaimed(callB)
  /\ (/\ callA.made /\ callB.made
      /\ callA.typ = callB.typ
      /\ Range(callA.added) = Range(callB.added)
      /\ callA.refs.Self # callB.refs.Self)
     => callA.hashed # callB.hashed

\* A call with two references added in descending order and the self
\* reference, next to the same call without the self reference.
C3_Witness ==
  /\ callA.made /\ callB.made
  /\ callA.added = <<SrcB, SrcA>> /\ callB.added = <<SrcA, SrcB>>
  /\ callA.refs.Self /\ ~callB.refs.Self
  /\ callA.hashed = callB.typ \o <<":">> \o SrcA \o <<":">> \o SrcB
                      \o <<":", "s", "e", "l", "f">>
                      \o DropPrefix(callB.hashed, Len(callB.typ) + Len(SrcA) + Len(SrcB) + 2)

\* C5: for a fixed output, Path computes the path with the name drvName
\* when outputName is "out" and drvName-outputName for any other output
\* name, with an empty reference set; for a floating or nil output it
\* returns ok = false and an empty path.
C5_OutputPath ==
  pathCall.made =>
    LET c == pathCall
        fixed == ~c.out.nil /\ c.out.typ = fixedCAOutputType
        name == IF c.outputName = <<"o", "u", "t">> THEN c.drvName
                ELSE c.drvName \o <<"-">> \o c.outputName
        expected == FixedCAOutputPath(c.store, name, c.out.ca,
                                      [Others |-> << >>, Self |-> FALSE])
    IN IF fixed
         THEN /\ c.result.path = expected.path
              /\ c.result.ok = (expected.err = "")
              /\ c.result.ok => PathName(c.result.path) = name
         ELSE c.result = [path |-> << >>, ok |-> FALSE]

\* The path of the default output of a fixed output derivation.
C5_Witness ==
  /\ pathCall.made
  /\ ~pathCall.out.nil /\ pathCall.out.typ = fixedCAOutputType
  /\ pathCall.outputName = <<"o", "u", "t">>
  /\ pathCall.drvName = NameHello
  /\ pathCall.result.ok
  /\ PathName(pathCall.result.path) = NameHello

(***************************************************************************)
(* Properties of parsing, marshalling and exporting.                       *)
(***************************************************************************)

Parsed == pc # "compose"
Accepted == Parsed /\ parsed.err = ""

\* The first place where pattern occurs in text, 0 if there is none.
IndexOf(text, pattern) ==
  LET at == {i \in 1..(Len(text) - Len(pattern) + 1) :
               SubSeq(text, i, i + Len(pattern) - 1) = pattern}
  IN IF at = {} THEN 0 ELSE CHOOSE i \in at : \A j \in at : i <= j

\* The first place at or after from where pattern occurs in text, 0 if none.
IndexFrom(text, pattern, from) ==
  LET at == {i \in from..(Len(text) - Len(pattern) + 1) :
               SubSeq(text, i, i + Len(pattern) - 1) = pattern}
  IN IF at = {} THEN 0 ELSE CHOOSE i \in at : \A j \in at : i <= j

Quoted(str) == AppendString(<< >>, str)

\* C1: for every derivation d that ParseDerivation returns, MarshalText(d)
\* succeeds and parsing its text gives a derivation equal to d; and the
\* text that MarshalText produced is what marshalling its parse gives back.
C1_RoundTrip ==
  /\ (pc = "marshalled" => marshalled.err = "")
  /\ (pc = "reparsed" => reparsed.err = "" /\ reparsed.drv = parsed.drv)
  /\ (pc = "remarshalled" =>
        remarshalled.err = "" /\ remarshalled.data = marshalled.data)

\* The two halves of C1 that hold: when MarshalText succeeds, its text
\* parses to the same derivation, which marshals to the same text.
RoundTripOfMarshalled ==
  /\ (pc = "reparsed" => reparsed.err = "" /\ reparsed.drv = parsed.drv)
  /\ (pc = "remarshalled" =>
        remarshalled.err = "" /\ remarshalled.data = marshalled.data)

\* The maps of a derivation iterating in ascending order of key.
AscendingIteration(drv) ==
  [outputs |-> Ascending(DOMAIN drv.Outputs),
   inputDerivations |-> Ascending(DOMAIN drv.InputDerivations),
   env |-> Ascending(DOMAIN drv.Env)]

\* C4: Export on a derivation with a Name and a Dir returns the bytes of
\* MarshalText and the path FixedCAOutputPath(Dir, Name.drv,
\* text(sha256(bytes)), refs), refs.Others being InputSources united with
\* the keys of InputDerivations and refs.Self false; with an empty Name or
\* an empty Dir it returns an error and no path.
C4_Export ==
  pc = "exported" =>
    LET d == parsed.drv IN
    IF d.Name = << >> \/ d.Dir = << >>
      THEN exported.err # "" /\ exported.path = << >>
    ELSE
      LET m == MarshalText(d, AscendingIteration(d))
          refs == [Others |-> Ascending(Range(d.InputSources) \cup DOMAIN d.InputDerivations),
                   Self |-> FALSE]
          p == FixedCAOutputPath(d.Dir, d.Name \o <<".", "d", "r", "v">>,
                                 TextContentAddress(NewHash("sha256", SHA256Bytes(m.data))),
                                 refs)
      IN IF m.err # "" THEN exported.err # "" /\ exported.path = << >>
         ELSE /\ exported.data = m.data
              /\ exported.path = p.path
              /\ (exported.err = "") = (p.err = "")

\* A derivation with an input source and an input derivation, exported.
C4_Witness ==
  /\ pc = "exported"
  /\ exported.err = ""
  /\ parsed.drv.InputSources = <<SrcA>>
  /\ DOMAIN parsed.drv.InputDerivations = {DrvB}
  /\ PathName(exported.path) = NameX \o <<".", "d", "r", "v">>
  /\ PathDir(exported.path) = StoreDir
  /\ IndexOf(exported.data, Quoted(SrcA)) > 0

\* Two keys appear in a text in ascending order, each at the place a
\* pattern made of it is found.
InOrder(text, keys, Pattern(_)) ==
  \A a, b \in keys :
    StrLess(a, b) =>
      /\ IndexOf(text, Pattern(a)) > 0
      /\ IndexOf(text, Pattern(a)) < IndexOf(text, Pattern(b))

OutputPattern(name) == <<"(">> \o Quoted(name) \o <<",">>
InputPattern(path) == <<"(">> \o Quoted(path) \o <<",", "[">>
EnvPattern(key) == <<"(">> \o Quoted(key) \o <<",">>

\* C6: in the bytes of MarshalText the outputs are in ascending order of
\* name, the input derivations in ascending order of path, the output
\* names of each input derivation in ascending order, the input sources in
\* ascending order, the env entries in ascending order of key and the
\* args in the order of the Args list, whatever order the maps iterate in.
C6_MarshalOrder ==
  (pc = "marshalled" /\ marshalled.err = "") =>
    LET d == parsed.drv
        text == marshalled.data
    IN /\ InOrder(text, DOMAIN d.Outputs, OutputPattern)
       /\ InOrder(text, DOMAIN d.InputDerivations, InputPattern)
       /\ \A k \in DOMAIN d.InputDerivations :
            LET from == IndexOf(text, InputPattern(k)) + Len(InputPattern(k))
                names == Range(d.InputDerivations[k])
            IN \A a, b \in names :
                 StrLess(a, b) =>
                   /\ IndexFrom(text, Quoted(a), from) > 0
                   /\ IndexFrom(text, Quoted(a), from) < IndexFrom(text, Quoted(b), from)
       /\ InOrder(text, Range(d.InputSources), Quoted)
       /\ InOrder(text, DOMAIN d.Env, EnvPattern)
       /\ IndexOf(text,
            Quoted(d.Builder) \o <<",", "[">>
              \o JoinComma([i \in 1..Len(d.Args) |-> Quoted(d.Args[i])])
              \o <<"]", ",", "[">>) > 0

\* Outputs and arguments written in descending order in the parsed text:
\* the marshalled text has the outputs ascending, the arguments as they were.
C6_Witness ==
  /\ pc = "marshalled" /\ marshalled.err = ""
  /\ Len(doc.outputs) = 2
  /\ doc.outputs[1].name = <<"o", "u", "t">> /\ doc.outputs[2].name = <<"d", "e", "v">>
  /\ IndexOf(marshalled.data, OutputPattern(<<"d", "e", "v">>)) = 9
  /\ IndexOf(marshalled.data, OutputPattern(<<"o", "u", "t">>)) > 9

\* C7: ParseDerivation returns an error and a nil derivation whenever a
\* byte remains after the closing parenthesis of the tuple, and when the
\* input does not begin with the Derive constructor.
C7_TrailingData ==
  (Parsed /\ (doc.trailing # << >> \/ doc.ctor # <<"D", "e", "r", "i", "v", "e">>))
    => parsed.err # "" /\ parsed.drv.nil

\* A text that is right up to its closing parenthesis, with a byte after it.
C7_Witness ==
  /\ Parsed
  /\ Len(doc.trailing) = 1 /\ Size(doc) = 2 /\ Len(doc.args) = 1
  /\ doc.trailing[1] = "\n"
  /\ parsed.err = "trailing data"
  /\ parsed.drv.nil

HasDuplicate(keys) == \E i, j \in 1..Len(keys) : i < j /\ keys[i] = keys[j]

OutputNamesOf(d) == [i \in 1..Len(d.outputs) |-> d.outputs[i].name]
InputPathsOf(d) == [i \in 1..Len(d.inputDrvs) |-> d.inputDrvs[i].path]
EnvKeysOf(d) == [i \in 1..Len(d.env) |-> d.env[i].key]

\* C8: ParseDerivation fails when the input names an output twice, an env
\* key twice or an input derivation path twice; in an accepted input
\* every entry is in the derivation as it was written, none replaced by a
\* later one.
C8_Duplicates ==
  Parsed =>
    /\ (\/ HasDuplicate(OutputNamesOf(doc))
        \/ HasDuplicate(EnvKeysOf(doc))
        \/ HasDuplicate(InputPathsOf(doc))) => parsed.err # ""
    /\ parsed.err = "" =>
         /\ Cardinality(DOMAIN parsed.drv.Outputs) = Len(doc.outputs)
         /\ Cardinality(DOMAIN parsed.drv.Env) = Len(doc.env)
         /\ Cardinality(DOMAIN parsed.drv.InputDerivations) = Len(doc.inputDrvs)
         /\ \A i \in 1..Len(doc.outputs) :
              /\ doc.outputs[i].name \in DOMAIN parsed.drv.Outputs
              /\ (parsed.drv.Outputs[doc.outputs[i].name].typ = fixedCAOutputType)
                   <=> (doc.outputs[i].hashHex # << >>)
         /\ \A i \in 1..Len(doc.env) :
              /\ doc.env[i].key \in DOMAIN parsed.drv.Env
              /\ parsed.drv.Env[doc.env[i].key] = doc.env[i].value
         /\ \A i \in 1..Len(doc.inputDrvs) :
              /\ doc.inputDrvs[i].path \in DOMAIN parsed.drv.InputDerivations
              /\ Range(parsed.drv.InputDerivations[doc.inputDrvs[i].path])
                   = Range(doc.inputDrvs[i].outs)

\* A text with the same env key twice, with different values.
C8_Witness ==
  /\ Parsed
  /\ Len(doc.env) = 2 /\ Size(doc) = 2
  /\ doc.env[1].key = doc.env[2].key /\ doc.env[1].value # doc.env[2].value
  /\ parsed.err = "env: multiple entries"
  /\ parsed.drv.nil

\* C9: ParseDerivation(dir, ...) fails for every input with an input
\* derivation entry whose path is in a store directory other than dir.
C9_ForeignInputDerivation ==
  (Parsed /\ \E i \in 1..Len(doc.inputDrvs) : PathDir(doc.inputDrvs[i].path) # doc.dir)
    => parsed.err # ""

\* A text whose only entry is an input derivation of another store directory.
C9_Witness ==
  /\ Parsed
  /\ Size(doc) = 1 /\ Len(doc.inputDrvs) = 1
  /\ doc.dir = StoreDir /\ PathDir(doc.inputDrvs[1].path) = OtherDir
  /\ parsed.err = "input derivation not in directory"

\* C10: every derivation that ParseDerivation(dir, ...) returns has all its
\* input sources and all keys of its input derivations in the directory
\* dir, and every key of its input derivations ends in ".drv".
C10_DataModelInvariant ==
  Accepted =>
    /\ \A i \in 1..Len(parsed.drv.InputSources) :
         PathDir(parsed.drv.InputSources[i]) = doc.dir
    /\ \A k \in DOMAIN parsed.drv.InputDerivations :
         /\ PathDir(k) = doc.dir
         /\ HasSuffix(k, <<".", "d", "r", "v">>)

(***************************************************************************)
(* Properties of derivation outputs.                                       *)
(***************************************************************************)

\* The outputs the two floating constructors return.
FloatingConstructed ==
  {FlatFileFloatingCAOutput(t) : t \in HashTypes}
    \cup {RecursiveFileFloatingCAOutput(t) : t \in HashTypes}

\* C11: IsFloating is true exactly for the outputs made by
\* FlatFileFloatingCAOutput or RecursiveFileFloatingCAOutput, false for the
\* outputs made by FixedCAOutput and for nil; for every output that is not
\* nil exactly one of IsFixed and IsFloating is true.
C11_IsFloating ==
  pathCall.made =>
    /\ pathCall.isFloating <=> (pathCall.out \in FloatingConstructed)
    /\ pathCall.out.nil => ~pathCall.isFixed /\ ~pathCall.isFloating
    /\ ~pathCall.out.nil => (pathCall.isFixed # pathCall.isFloating)

\* What the code does: IsFloating answers as IsFixed does.
IsFloatingAsCoded ==
  pathCall.made => pathCall.isFloating = pathCall.isFixed

\* Where the tuple of output name starts and ends in a marshalled text.
TupleStart(text, name) == IndexOf(text, OutputPattern(name))
TupleEnd(text, name) == IndexFrom(text, <<")">>, TupleStart(text, name))

\* Whether the path and the hash of the tuple of output name are empty
\* strings in a marshalled text.
MarshalledPathEmpty(text, name) ==
  LET from == TupleStart(text, name) + Len(OutputPattern(name))
  IN text[from] = Quote /\ text[from + 1] = Quote

MarshalledHashEmpty(text, name) ==
  LET close == TupleEnd(text, name)
  IN text[close - 1] = Quote /\ text[close - 2] = Quote /\ text[close - 3] = ","

\* The number of bytes of the hash algorithm an output entry names.
EntryHashSize(e) == IF HasSuffix(e.caInfo, <<"m", "d", "5">>) THEN 16 ELSE 32

\* C12: a floating output is marshalled with an empty path and an empty
\* hash, a fixed output with a path and a hash that are not empty; the
\* parser takes a tuple for floating iff its path and its hash are both
\* empty, for fixed iff its hash is not empty (and of the size of the
\* named hash algorithm), and rejects a tuple with a path and no hash.
C12_Classification ==
  /\ (pc = "marshalled" /\ marshalled.err = "") =>
       \A n \in DOMAIN parsed.drv.Outputs :
         LET out == parsed.drv.Outputs[n] IN
           /\ TupleStart(marshalled.data, n) > 0
           /\ out.typ = floatingCAOutputType =>
                /\ MarshalledPathEmpty(marshalled.data, n)
                /\ MarshalledHashEmpty(marshalled.data, n)
           /\ out.typ = fixedCAOutputType =>
                /\ ~MarshalledPathEmpty(marshalled.data, n)
                /\ ~MarshalledHashEmpty(marshalled.data, n)
  /\ Parsed =>
       /\ (\E i \in 1..Len(doc.outputs) :
             doc.outputs[i].path # << >> /\ doc.outputs[i].hashHex = << >>)
            => parsed.err # ""
       /\ (\E i \in 1..Len(doc.outputs) :
             /\ doc.outputs[i].hashHex # << >>
             /\ Len(doc.outputs[i].hashHex) # 2 * EntryHashSize(doc.outputs[i]))
            => parsed.err # ""
       /\ parsed.err = "" =>
            \A i \in 1..Len(doc.outputs) :
              LET e == doc.outputs[i]
                  out == parsed.drv.Outputs[e.name]
              IN /\ ~out.nil
                 /\ (out.typ = floatingCAOutputType)
                      <=> (e.path = << >> /\ e.hashHex = << >>)
                 /\ (out.typ = fixedCAOutputType) <=> (e.hashHex # << >>)
                 /\ out.typ = fixedCAOutputType =>
                      /\ HexEncode(out.ca.hash.bits) = e.hashHex
                      /\ Len(out.ca.hash.bits) = EntryHashSize(e)

\* A derivation with a floating and a fixed output, parsed and marshalled.
C12_Witness ==
  /\ pc = "marshalled" /\ marshalled.err = ""
  /\ DOMAIN parsed.drv.Outputs = {<<"o", "u", "t">>, <<"d", "e", "v">>}
  /\ parsed.drv.Outputs[<<"o", "u", "t">>].typ = floatingCAOutputType
  /\ parsed.drv.Outputs[<<"d", "e", "v">>].typ = fixedCAOutputType
  /\ doc.outputs[1].path # << >>
  /\ MarshalledPathEmpty(marshalled.data, <<"o", "u", "t">>)
  /\ ~MarshalledHashEmpty(marshalled.data, <<"d", "e", "v">>)

\* C13: every floating output of a derivation, made by a constructor or
\* returned by ParseDerivation, has the flat or the recursive ingestion
\* method, never the text method.
C13_FloatingMethod ==
  Accepted =>
    \A n \in DOMAIN parsed.drv.Outputs :
      parsed.drv.Outputs[n].typ = floatingCAOutputType =>
        parsed.drv.Outputs[n].method \in {flatFileIngestionMethod, recursiveFileIngestionMethod}

\* The part of C13 on constructors: the floating outputs they make are
\* flat or recursive.
FloatingConstructedMethod ==
  \A out \in FloatingConstructed :
    out.method \in {flatFileIngestionMethod, recursiveFileIngestionMethod}

\* The name of a derivation path of the model without its extension.
NameWithoutExt(drvPath) ==
  IF drvPath = DrvA THEN <<"a">> ELSE IF drvPath = DrvB THEN <<"b">> ELSE <<"c">>

DigestOf(drvPath) == IF drvPath = DrvA THEN Digest0 ELSE Digest1

\* C14: HashPlaceholder(outputName) is "/" and the base 32 of
\* sha256("nix-output:" outputName); UnknownCAOutputPlaceholder(drvPath,
\* outputName) is "/" and the base 32 of sha256("nix-upstream-output:"
\* digest ":" name without ".drv", then "-" outputName iff outputName is not
\* "out"); both depend on their arguments only.
C14_Placeholders ==
  /\ \A i \in 1..Len(placeholders) :
       LET c == placeholders[i] IN
         /\ c.hash = <<"/">> \o Base32Encode(SHA256Bytes(
              <<"n", "i", "x", "-", "o", "u", "t", "p", "u", "t", ":">> \o c.outputName))
         /\ c.unknown = <<"/">> \o Base32Encode(SHA256Bytes(
              <<"n", "i", "x", "-", "u", "p", "s", "t", "r", "e", "a", "m", "-",
                "o", "u", "t", "p", "u", "t", ":">>
                \o DigestOf(c.drvPath) \o <<":">> \o NameWithoutExt(c.drvPath)
                \o (IF c.outputName = <<"o", "u", "t">> THEN << >>
                    ELSE <<"-">> \o c.outputName)))
         /\ Len(c.hash) = 53 /\ Len(c.unknown) = 53
  /\ \A i, j \in 1..Len(placeholders) :
       /\ placeholders[i].outputName = placeholders[j].outputName
            => placeholders[i].hash = placeholders[j].hash
       /\ (/\ placeholders[i].outputName = placeholders[j].outputName
           /\ placeholders[i].drvPath = placeholders[j].drvPath)
            => placeholders[i].unknown = placeholders[j].unknown

\* The placeholders of the output dev of a derivation a.drv, asked for twice.
C14_Witness ==
  /\ Len(placeholders) = 2
  /\ placeholders[1].drvPath = DrvA /\ placeholders[1].outputName = <<"d", "e", "v">>
  /\ placeholders[2] = placeholders[1]
  /\ placeholders[1].hash # placeholders[1].unknown
  /\ placeholders[1].hash[1] = "/"

(***************************************************************************)
(* Properties of the import of sources.                                    *)
(***************************************************************************)

\* A call of path has returned.
PathReturned == eval.pc = "done" /\ eval.fn = "path"

\* The call of path in progress or returned has walked the source.
Walked == eval.pc # "idle" /\ eval.fn = "path" /\ eval.stamps # {}

\* The call has opened no connection, written no NAR and sent no trailer.
NothingImported ==
  eval.opened = 0 /\ eval.imp = NoImp

C16_CacheHitOnlyIfFresh ==
  /\ (PathReturned /\ eval.result.err = "" /\ eval.opened = 0)
       => /\ [path |-> eval.result.value, stamps |-> eval.stamps] \in cache
          /\ eval.result.value \in eval.diskAtCheck
          /\ eval.check.err = ""
  /\ (Walked /\ eval.check # NoCheck
        /\ ~(/\ eval.check.err = ""
             /\ eval.check.path \in eval.diskAtCheck
             /\ [path |-> eval.check.path, stamps |-> eval.stamps] \in cache))
       => /\ eval.pc = "done" => (eval.opened = 1 \/ eval.result.err = "startImport")
          /\ (eval.pc = "done" /\ eval.result.err = "")
               => /\ eval.opened = 1
                  /\ eval.imp.state = "closed"
                  /\ eval.imp.written # << >>
                  /\ Len(eval.imp.trailers) = 1
                  /\ eval.imp.trailers[1].storePath = eval.result.value
                  /\ [path |-> eval.result.value, stamps |-> eval.stamps] \in cache

\* The file was touched after an import, and the next import streamed it
\* again and returned a store path.
C16_Witness ==
  /\ PathReturned /\ eval.result.err = ""
  /\ eval.prev.made /\ eval.prev.p = eval.p /\ eval.prev.stamps # eval.stamps
  /\ eval.prevOnDisk
  /\ eval.check.err = "no match"
  /\ eval.opened = 1 /\ Len(eval.imp.trailers) = 1

\* C17: when checkStamp finds more than one store path of the store
\* directory, path returns an error, no store path and opens no import
\* connection.
C17_CollisionIsFatal ==
  (Walked /\ eval.check.err = "multiple store paths found (hash collision)")
    => /\ eval.pc = "done"
       /\ eval.result.err # ""
       /\ eval.result.value = << >>
       /\ NothingImported

(***************************************************************************)
(* Properties of the path argument.                                        *)
(***************************************************************************)

\* The relative paths of the model joined to the directory /src, and to the
\* directory of a source file named without a directory.
JoinedToSrc(path) ==
  IF path \in {<<"a">>, <<".", "/", "a">>, <<"a", "/">>} THEN SrcRoot
  ELSE IF path = <<".", ".", "/", "a">> THEN <<"/", "a">>
  ELSE <<"/", "s", "r", "c", "/", "s", "u", "b", "/", "a">>
JoinedToDot(path) ==
  IF path \in {<<"a">>, <<".", "/", "a">>, <<"a", "/">>} THEN <<"a">>
  ELSE IF path = <<".", ".", "/", "a">> THEN <<".", ".", "/", "a">>
  ELSE <<"s", "u", "b", "/", "a">>

\* C20: absSourcePath gives an absolute path as it is, a relative path
\* joined to the directory of the source file of the caller when the source
\* begins with "@", a relative path in the working directory when the
\* chunk of the caller is not from a file, and an error without information
\* on the caller; the name, when none or an empty one is given, is the base
\* of the path.
C20_SourcePath ==
  (resolve.state = "resolved" /\ resolve.arg.path # Nil) =>
    LET path == resolve.arg.path
        source == resolve.debugInfo.Source
        abs == resolve.abs
    IN /\ path[1] = "/" => abs = [path |-> path, err |-> ""]
       /\ (path[1] # "/" /\ resolve.debugInfo.nil) => abs.err # ""
       /\ (path[1] # "/" /\ ~resolve.debugInfo.nil /\ source[1] = "@") =>
            /\ abs.err = ""
            /\ abs.path = IF Len(source) > 6 THEN JoinedToSrc(path) ELSE JoinedToDot(path)
       /\ (path[1] # "/" /\ ~resolve.debugInfo.nil /\ source[1] # "@") =>
            IF resolve.wd.err # "" THEN abs.err # ""
            ELSE abs.err = "" /\ abs.path = JoinedToSrc(path)
       /\ resolve.arg.typ \in {"string", "table"} =>
            /\ resolve.out.err = abs.err
            /\ abs.err = "" =>
                 /\ resolve.out.p = abs.path
                 /\ resolve.out.name =
                      IF resolve.arg.name \in {Nil, << >>} THEN <<"a">> ELSE resolve.arg.name

\* A path that goes up from the directory of the source file, without a name.
C20_Witness ==
  /\ resolve.state = "resolved"
  /\ resolve.arg = StringArg(<<".", ".", "/", "a">>)
  /\ resolve.debugInfo.Source = <<"@", "/", "s", "r", "c", "/", "b", ".", "l", "u", "a">>
  /\ resolve.out = [p |-> <<"/", "a">>, name |-> <<"a">>, err |-> ""]

(***************************************************************************)
(* Properties of the import of texts.                                      *)
(***************************************************************************)

\* A call of toFile, in progress or returned, with a name and contents.
ToFileCalled == eval.pc # "idle" /\ eval.fn = "toFile" /\ eval.name # << >>

\* C18: toFile returns an error whenever an entry of the string context of
\* the contents begins with "!", and then it has computed and statted no
\* store path, opened no import connection and written nothing.
C18_NoOutputsInToFile ==
  (/\ eval.pc # "idle" /\ eval.fn = "toFile"
   /\ \E i \in 1..Len(eval.context) : eval.context[i][1] = "!")
    => /\ eval.pc = "done"
       /\ eval.result.err # ""
       /\ eval.result.value = << >>
       /\ eval.storePath = << >> /\ eval.statted = {}
       /\ NothingImported

\* A context whose second entry is the output of a derivation.
C18_Witness ==
  /\ eval.pc = "done" /\ eval.fn = "toFile"
  /\ eval.context = <<SrcA, OutputOfDrvA>>
  /\ eval.result.err = "cannot depend on derivation outputs"
  /\ disk # {}

\* The single-file NAR of the contents of the call, written out.
ExpectedNAR ==
  narString(<<"n", "i", "x", "-", "a", "r", "c", "h", "i", "v", "e", "-", "1">>)
    \o <<"0", ":">> \o <<"1", ":", "r">>
    \o Itoa(Len(eval.contents)) \o <<":">> \o eval.contents
    \o <<"1", ":", ")">>

\* C19: the store path of toFile is that of the text content address of
\* sha256 of the contents, the name and the references of the context; when
\* it is on disk, toFile returns it and opens no connection; otherwise it
\* opens one connection, writes the single-file NAR of the contents, then
\* sends one trailer with the store path and the references, then closes,
\* and returns the path only when the close succeeded.
C19_ToFile ==
  (ToFileCalled /\ eval.storePath # << >>) =>
    LET refs == [Others |-> Ascending(Range(eval.context)), Self |-> FALSE]
        expected == makeStorePath(StoreDir, <<"t", "e", "x", "t">>,
                                  NewHash("sha256", SHA256Bytes(eval.contents)),
                                  eval.name, refs)
        trailer == [storePath |-> eval.storePath, references |-> refs.Others]
    IN /\ expected.err = "" /\ eval.storePath = expected.path
       /\ eval.opened <= 1
       /\ eval.storePath \in eval.diskAtCheck =>
            /\ eval.pc = "done" /\ eval.result = [err |-> "", value |-> eval.storePath,
                                                  context |-> {eval.storePath}]
            /\ NothingImported
       /\ eval.storePath \notin eval.diskAtCheck =>
            /\ eval.pc = "missed" => NothingImported
            /\ eval.pc = "opened" =>
                 eval.opened = 1 /\ eval.imp = [NoImp EXCEPT !.state = "open"]
            /\ eval.pc = "streamed" =>
                 eval.imp = [state |-> "open", written |-> ExpectedNAR, trailers |-> << >>]
            /\ eval.pc = "trailed" =>
                 eval.imp = [state |-> "open", written |-> ExpectedNAR,
                             trailers |-> <<trailer>>]
            /\ (eval.pc = "done" /\ eval.result.err = "") =>
                 /\ eval.opened = 1
                 /\ eval.imp = [state |-> "closed", written |-> ExpectedNAR,
                                trailers |-> <<trailer>>]
                 /\ eval.result.value = eval.storePath
            /\ (eval.pc = "done" /\ eval.imp.state # "closed") =>
                 eval.result.err # "" /\ eval.result.value = << >>

\* A text with two references was imported through a connection.
C19_Witness ==
  /\ ToFileCalled /\ eval.pc = "done" /\ eval.result.err = ""
  /\ eval.context = <<SrcB, SrcA>>
  /\ eval.opened = 1 /\ eval.imp.state = "closed"
  /\ eval.imp.trailers = <<[storePath |-> eval.result.value, references |-> <<SrcA, SrcB>>]>>
  /\ eval.result.value \in disk

\* A text that is in the store is returned without a connection.
C19_WitnessOnDisk ==
  /\ ToFileCalled /\ eval.pc = "done" /\ eval.result.err = ""
  /\ eval.storePath \in eval.diskAtCheck
  /\ eval.opened = 0

(***************************************************************************)
(* Properties of the function path, statement by statement.                *)
(***************************************************************************)

\* The regular files of the walk whose size on disk is not the size the walk
\* recorded.
Diverged == {r \in conn.curr.rows : ModeType(r.mode) = 0 /\ r.size # Len(files[r.path].data)}

\* C21: when the streaming of a path import copies from a regular file a
\* number of bytes that differs from the size the walk recorded, the import
\* fails at that statement: pathFunction returns an error and no store path,
\* no trailer has been sent, the import connection is closed, the relation
\* of the walk is dropped and the cache database is unchanged.
C21_SizeChanged ==
  [][\A g \in DOMAIN calls :
       (calls[g].pc = "opened" /\ calls'[g] # calls[g] /\ Diverged # {})
         => /\ calls'[g].pc = "done"
            /\ calls'[g].result.err # ""
            /\ calls'[g].result.value = << >>
            /\ calls'[g].storePath = << >>
            /\ calls'[g].imp.trailers = << >>
            /\ calls'[g].imp.state = "aborted"
            /\ tables' = tables /\ tables = calls[g].before
            /\ ~conn'.tx.open
            /\ disk' = disk]_vars

\* A call has returned "changed size during import" after the headers of the
\* entries before the file were written.
C21_Witness ==
  \E g \in DOMAIN calls :
    /\ calls[g].pc = "done"
    /\ calls[g].result.err = "changed size during import"
    /\ calls[g].imp.written # << >>
    /\ calls[g].imp.state = "aborted"

WholeNAR(c) ==
  {narBytes(streamWalk(c.walked, c.p, PipelineTree(d)).headers) :
     d \in {e \in SizeChoices : streamWalk(c.walked, c.p, PipelineTree(e)).err = ""}}

\* C24: a path import sends at most one trailer, and only once the header
\* of every entry of the walk (with the data of every regular file) has been
\* written and the NAR writer closed; the trailer names the store path of
\* the hash of exactly the bytes written to the import connection and has
\* no references.
C24_Trailer ==
  \A g \in DOMAIN calls :
    calls[g].pc # "idle"
      => /\ Len(calls[g].imp.trailers) <= 1
         /\ calls[g].pc \in {"called", "walked", "missed", "opened", "streamed"}
              => calls[g].imp.trailers = << >>
         /\ calls[g].pc \in {"trailed", "closed", "transaction"}
              => Len(calls[g].imp.trailers) = 1
         /\ calls[g].imp.trailers # << >>
              => /\ calls[g].imp.written \in WholeNAR(calls[g])
                 /\ calls[g].hashed = calls[g].imp.written
                 /\ calls[g].imp.trailers[1].storePath =
                      FixedCAOutputPath(StoreDir, calls[g].name,
                        RecursiveFileContentAddress(SumHash(calls[g].imp.written)),
                        NoReferences).path
                 /\ calls[g].imp.trailers[1].references = << >>
                 /\ calls[g].storePath = calls[g].imp.trailers[1].storePath
         /\ (calls[g].pc = "done" /\ calls[g].result.err = "" /\ calls[g].opened > 0)
              => /\ Len(calls[g].imp.trailers) = 1
                 /\ calls[g].result.value = calls[g].imp.trailers[1].storePath

\* The trailer of the import of the directory /src/a with its five entries
\* has been sent.
C24_Witness ==
  \E g \in DOMAIN calls :
    /\ calls[g].pc = "trailed"
    /\ Cardinality(calls[g].walked) = 5
    /\ Len(calls[g].imp.trailers) = 1

\* C25: the cache database changes for a path import only in the
\* transaction that follows an imp.Close without error after the trailer;
\* a call that has returned an error, or a store path from the cache, has
\* left the cache database exactly as it was at the call.
C25_CacheOnlyAfterClose ==
  [][\A g \in DOMAIN calls :
       /\ (tables' # tables \/ (conn.tx.open /\ conn'.tx.open /\ conn'.tx.pending # conn.tx.pending))
            => /\ calls[g].pc = "transaction"
               /\ calls[g].imp.state = "closed"
               /\ Len(calls[g].imp.trailers) = 1
               /\ calls[g].storePath = calls[g].imp.trailers[1].storePath
       /\ conn'.tx.open
            => calls'[g].imp.state = "closed" /\ Len(calls'[g].imp.trailers) = 1
       /\ (calls'[g].pc = "done" /\ (calls'[g].result.err # "" \/ calls'[g].opened = 0))
            => tables' = calls'[g].before
       /\ calls'[g].pc \in {"called", "walked", "missed", "opened", "streamed", "trailed",
                             "closed"}
            => tables' = calls'[g].before]_vars

\* A second call has returned the store path of the first from the cache,
\* and the cache database holds what the first call committed.
C25_Witness ==
  \E g \in DOMAIN calls :
    /\ calls[g].pc = "done" /\ calls[g].made = 2
    /\ calls[g].result.err = "" /\ calls[g].opened = 0
    /\ tables.mappings # {} /\ tables = calls[g].before

\* The tables after the first n statements of updateCache for the call c,
\* from the tables before: stale mappings are gone, then the store object
\* has its row, then the mapping its row, then the mapping its stamps.
AfterStatements(n, c, before, pending) ==
  /\ pending.objects = before.objects \cup (IF n >= 2 THEN {c.storePath} ELSE {})
  /\ n >= 1 =>
       /\ \A m \in pending.mappings :
            \/ m \in before.mappings /\ m \in invalidate(before.mappings, c.walked, {m.path})
            \/ n >= 3 /\ m.path = c.storePath
       /\ \A m \in before.mappings :
            m \in invalidate(before.mappings, c.walked, disk) => m \in pending.mappings
  /\ n = 3 => [path |-> c.storePath, stamps |-> {}] \in pending.mappings
  /\ n # 3 => \A m \in pending.mappings : m.stamps # {}
  /\ n = 4 => [path |-> c.storePath, stamps |-> stampsOf(c.walked)] \in pending.mappings

\* C26: updateCache invalidates the stale rows, upserts the store object,
\* inserts the mapping and copies the walk under it, in this order; when a
\* statement (or the commit) fails, what the statements before it did is
\* rolled back, the cache database is as before the call, and pathFunction
\* returns the error and no store path.
C26_UpdateCache ==
  \A g \in DOMAIN calls :
    /\ (conn.tx.open /\ conn.tx.owner = g)
         => /\ calls[g].pc = "transaction"
            /\ conn.tx.steps =
                 SubSeq(<<"invalidate", "upsert_store_object", "new_mapping", "copy_walk">>,
                        1, Len(conn.tx.steps))
            /\ tables = calls[g].before
            /\ AfterStatements(Len(conn.tx.steps), calls[g], calls[g].before, conn.tx.pending)
    /\ (calls[g].pc = "done" /\ calls[g].result.err = "updating cache")
         => /\ tables = calls[g].before
            /\ ~conn.tx.open
            /\ calls[g].result.value = << >> /\ calls[g].result.context = {}
    /\ (calls[g].pc = "done" /\ calls[g].result.err = "" /\ calls[g].opened > 0)
         => /\ calls[g].statements =
                 <<"invalidate", "upsert_store_object", "new_mapping", "copy_walk">>
            /\ AfterStatements(4, calls[g], calls[g].before, tables)
            /\ calls[g].result.value = calls[g].storePath

\* copy_walk.sql has failed after the three statements before it, on a
\* cache database that held a mapping.
C26_Witness ==
  \E g \in DOMAIN calls :
    /\ calls[g].pc = "done" /\ calls[g].result.err = "updating cache"
    /\ calls[g].statements = <<"invalidate", "upsert_store_object", "new_mapping">>
    /\ calls[g].before.mappings # {}
    /\ calls[g].storePath \notin calls[g].before.objects

\* C27: while the immediate transaction on the cache database is open,
\* pathFunction does not walk, reads no source file and does nothing on the
\* import connection: the transaction is begun only after imp.Close, its
\* steps are the statements of updateCache and its end only, and it is
\* committed or rolled back when pathFunction returns.
C27_NothingInTransaction ==
  [][\A g \in DOMAIN calls :
       /\ conn.tx.open
            => /\ calls[g].pc = "transaction"
               /\ calls[g].imp.state = "closed"
               /\ calls'[g].imp = calls[g].imp
               /\ calls'[g].hashed = calls[g].hashed
               /\ calls'[g].walked = calls[g].walked
               /\ calls'[g].opened = calls[g].opened
               /\ conn'.curr \in {conn.curr, NoCurr}
               /\ disk' \subseteq disk
               /\ calls'[g].pc \in {"transaction", "done"}
       /\ (~conn.tx.open /\ conn'.tx.open)
            => calls[g].pc = "closed" /\ calls[g].imp.state = "closed"
       /\ conn'.tx.open => calls'[g].pc = "transaction"
       /\ calls'[g].pc = "done" => ~conn'.tx.open]_vars

\* A transaction is open with two statements of updateCache done.
C27_Witness ==
  \E g \in DOMAIN calls :
    /\ conn.tx.open /\ conn.tx.owner = g
    /\ Len(conn.tx.steps) = 2
    /\ calls[g].imp.state = "closed"

(***************************************************************************)
(* Properties of the order of paths.                                       *)
(***************************************************************************)

\* The comparison of two sequences by the first place where they differ,
\* a proper prefix first; less(x, y) compares two of their elements.
CompareSeq(x, y, less(_, _)) ==
  LET m == IF Len(x) < Len(y) THEN Len(x) ELSE Len(y)
      diffs == {i \in 1..m : x[i] # y[i]}
  IN IF diffs # {}
       THEN LET d == CHOOSE i \in diffs : \A j \in diffs : i <= j
            IN IF less(x[d], y[d]) THEN 0 - 1 ELSE 1
     ELSE IF Len(x) < Len(y) THEN 0 - 1
     ELSE IF Len(x) > Len(y) THEN 1
     ELSE 0

\* The comparison of two paths component by component, the components as
\* strings of bytes.
CompareComponents(a, b) ==
  CompareSeq(SplitSeparator(Clean(a)), SplitSeparator(Clean(b)), StrLess)

\* The comparison of two paths byte by byte with the separator below every
\* other byte.
SeparatorFirst(x, y) == y # Separator /\ (x = Separator \/ Code(x) < Code(y))
CompareSeparatorFirst(a, b) == CompareSeq(Clean(a), Clean(b), SeparatorFirst)

\* The path b is in the directory a, at any depth.
Below(a, b) ==
  /\ Clean(a) # Clean(b)
  /\ HasPrefix(Clean(b), IF Clean(a) = <<Separator>> THEN Clean(a)
                         ELSE Clean(a) \o <<Separator>>)

\* C28: collatePath is a total order on cleaned paths (antisymmetric,
\* transitive, 0 exactly for equal cleaned paths); it is the comparison
\* component by component, which is the comparison byte by byte with the
\* separator below every other byte; a directory comes before everything in
\* it, what is in a directory is contiguous, and the iteration of a walk
\* gives its paths in ascending order.
C28_CollatePath ==
  compared.state = "compared"
    => /\ compared.ab = 0 - compared.ba
       /\ compared.ab \in {0 - 1, 0, 1}
       /\ compared.ab = 0 <=> Clean(compared.a) = Clean(compared.b)
       /\ (compared.ab <= 0 /\ compared.bc <= 0) => compared.ac <= 0
       /\ (compared.ab < 0 /\ compared.bc <= 0) => compared.ac < 0
       /\ compared.ab = CompareComponents(compared.a, compared.b)
       /\ compared.ab = CompareSeparatorFirst(compared.a, compared.b)
       /\ Below(compared.a, compared.b) => compared.ab < 0
       /\ (Below(compared.a, compared.b) /\ compared.ac < 0 /\ compared.bc > 0)
            => Below(compared.a, compared.c)
       /\ {compared.order[i] : i \in 1..Len(compared.order)}
            = {Clean(compared.a), Clean(compared.b), Clean(compared.c)}
       /\ \A i, j \in 1..Len(compared.order) :
            i < j => CompareComponents(compared.order[i], compared.order[j]) < 0

\* The directory /d, its entry z and the file /d-x, which the order of
\* bytes would put between them, have been compared and iterated.
C28_Witness ==
  /\ compared.state = "compared"
  /\ compared.a = <<"/", "d", "-", "x">>
  /\ compared.b = <<"/", "d", "/", "z">>
  /\ compared.c = <<"/", "d">>
  /\ compared.ab = 1
  /\ compared.order = <<compared.c, compared.b, compared.a>>

(***************************************************************************)
(* Properties of the walk.                                                 *)
(***************************************************************************)

\* The calls of path whose walk succeeded.
WalkedCalls == {g \in DOMAIN calls : calls[g].pc # "idle" /\ calls[g].deferred # {}}

\* C29: the walk of a root that is a symlink records one entry, the root,
\* with the size -1 and the stamp "link:" and its target, and nothing of
\* what the link points to; in every walk a directory has the size -1 and
\* the stamp "dir", a symlink the size -1 and the stamp "link:" and its
\* target, and only a regular file has a size.
C29_WalkOfSymlink ==
  \A g \in WalkedCalls :
    /\ files[Clean(calls[g].p)].target # << >>
         => calls[g].walked =
              {[path |-> calls[g].p, mode |-> FileMode(ModeSymlink, 511), size |-> 0 - 1,
                stamp |-> <<"l", "i", "n", "k", ":">> \o files[Clean(calls[g].p)].target]}
    /\ \A r \in calls[g].walked :
         /\ r.mode = files[Clean(r.path)].Mode
         /\ files[Clean(r.path)].Mode.typeBit = ModeDir
              => r.size = 0 - 1 /\ r.stamp = <<"d", "i", "r">>
         /\ files[Clean(r.path)].Mode.typeBit = ModeSymlink
              => r.size = 0 - 1 /\ r.stamp = <<"l", "i", "n", "k", ":">> \o files[Clean(r.path)].target
         /\ files[Clean(r.path)].Mode.typeBit = 0 <=> r.size >= 0
    /\ calls[g].pc \in {"walked", "missed", "opened", "streamed", "trailed", "closed",
                        "transaction"}
         => conn.curr = [exists |-> TRUE, rows |-> calls[g].walked]

\* The symlink /src/l, which points to the directory a, has been walked.
C29_Witness ==
  \E g \in WalkedCalls :
    /\ calls[g].p = SrcLink
    /\ files[SrcLink].target = <<"a">>
    /\ Cardinality(calls[g].walked) = 1
    /\ calls[g].pc = "walked"

\* C30: the path pathFunction hands to walkPath and checkStamp is cleaned
\* and absolute, and every row of the walk other than the root has the root
\* path and one separator as a prefix, so that it can be made relative.
C30_CleanedAbsolute ==
  \A g \in WalkedCalls :
    /\ IsAbs(calls[g].p)
    /\ Clean(calls[g].p) = calls[g].p
    /\ \A r \in calls[g].walked :
         r.path # calls[g].p => HasPrefix(r.path, calls[g].p \o <<Separator>>)

=============================================================================
